---- MODULE Spec2Model ----
(***************************************************************************)
(* Model of the ElectricMeterScraper scripts: the Imagine usage pipeline   *)
(* (src/src/imagineScraper.py), the USMS table and meter-card extractors   *)
(* (src/src/scraper.py, src/src/usmsScraper.py, src/scraper_headless.py)   *)
(* and the two sinks (src/src/mqtt_publisher.py, src/src/excel_exporter.py)*)
(* A script run is followed from its first line (credentials, WebDriver,   *)
(* login) to the finally clause that closes the browser, and                *)
(* src/src/usmsScraperV2.py is the third USMS script.                       *)
(*                                                                         *)
(* Page text is a sequence of one-character strings, so that the string    *)
(* operations of the code (lower, split, replace, strip, int, "in") are    *)
(* computed character by character as Python computes them.               *)
(***************************************************************************)
EXTENDS Integers, Sequences, FiniteSets, TLC

VARIABLES
    \* ---- imagineScraper.py: main() ----
    ipc,            \* position of main() in its body
    page,           \* the usage page as the browser renders it (input)
    usage_data,     \* dict returned by scrape_usage_data
    mqtt_payload,   \* dict built at lines 271-294
    parse_error,    \* the except branch of lines 282-284 ran
    published,      \* payloads handed to publish_imagine_json, in call order
    exported,       \* sheet bundles handed to export_to_excel, in call order
    browser_open,   \* the WebDriver session exists and was not quit
    \* ---- scrape_data_from_table ----
    tpc,            \* position inside / between calls of scrape_data_from_table
    dom,            \* the table view as the browser renders it (input)
    hourly_data,    \* local list of the running call
    total_consumption, \* local of the running call
    row_i,          \* index of the next data row the loop visits
    raised,         \* an exception left scrape_data_from_table
    returns,        \* (hourly_data, total_consumption) of each finished call
    \* ---- meter cards: scrape_all_meters / scrape_dynamic_values, USMS sinks ----
    mpc,            \* position of the USMS script after login
    script,         \* which USMS script runs: "usmsScraper" or "scraper"
    cards,          \* the account page's meter cards (input)
    frame,          \* browser frame context: "default" or "MyFrame"
    all_meter_data, \* result of scrape_all_meters
    dynamic_values, \* result of scrape_dynamic_values / the compatibility dict
    looked_up,      \* (slot, field) lookups that were started, in order
    hourly_consumption, \* the script's copy of the table readings
    total_kwh,      \* the script's copy of the table total
    usms_published, \* payloads handed to publish_usms_json
    usms_exported,  \* sheet bundles handed to export_to_excel by export_usms_data
    \* ---- a script run from its first line: credentials, WebDriver, login ----
    spc,            \* position of the script outside its pipeline
    run_script,     \* the script that runs
    cred_file,      \* credentials.json as the script finds it (input)
    credentials,    \* the pair load_credentials returned
    console,        \* messages load_credentials printed
    current_url,    \* the address the browser shows
    requests,       \* URLs handed to driver.get, in order
    \* ---- mqtt_publisher.py ----
    qpc,            \* position inside the called function of mqtt_publisher
    mqtt_call,      \* the function that was called, and its argument
    mqtt_file,      \* credentials.json as load_mqtt_config finds it (input)
    mqtt_config,    \* what load_mqtt_config returned
    client,         \* the paho client: "none", "created", "connected", "disconnected"
    broker,         \* how the broker answers (input)
    wire,           \* what was sent towards the broker, in order
    connection_successful, \* the flag the on_connect callback sets
    mqtt_result,    \* what the called function returned
    \* ---- scraper_headless.py: the navigation after the login ----
    hpc,            \* position in the navigation
    events,         \* what the navigation did around the overlay, in order
    nav_end,        \* the exception that ended the navigation, and where it was raised
    \* ---- excel_exporter.py ----
    xpc,            \* position of the called export function
    export_call,    \* the function that was called, with its arguments (input)
    export_outcome  \* what the call returned, raised and left on disk

imagineVars == <<ipc, page, usage_data, mqtt_payload, parse_error, published,
                 exported, browser_open>>
tableVars == <<tpc, dom, hourly_data, total_consumption, row_i, raised, returns>>
meterVars == <<mpc, script, cards, frame, all_meter_data, dynamic_values,
               looked_up, hourly_consumption, total_kwh, usms_published, usms_exported>>
startVars == <<spc, run_script, cred_file, credentials, console, requests,
              current_url>>
mqttVars == <<qpc, mqtt_call, mqtt_file, mqtt_config, client, broker, wire,
              connection_successful, mqtt_result>>
headVars == <<hpc, events, nav_end>>
exportVars == <<xpc, export_call, export_outcome>>
vars == <<imagineVars, tableVars, meterVars, startVars, mqttVars, headVars, exportVars>>

-----------------------------------------------------------------------------
(* Python values *)

\* Python's None; text values are sequences of one-character strings.
None == <<"None">>

\* The empty dict {}.
EmptyDict == <<>>

\* d[k] = v on a dict: the key is added or overwritten.
DictSet(d, k, v) == [x \in DOMAIN d \cup {k} |-> IF x = k THEN v ELSE d[x]]

-----------------------------------------------------------------------------
(* Python string operations, on sequences of characters *)

UpperLetters == <<"A","B","C","D","E","F","G","H","I","J","K","L","M",
                  "N","O","P","Q","R","S","T","U","V","W","X","Y","Z">>
LowerLetters == <<"a","b","c","d","e","f","g","h","i","j","k","l","m",
                  "n","o","p","q","r","s","t","u","v","w","x","y","z">>
DigitChars == <<"0","1","2","3","4","5","6","7","8","9">>
Whitespace == {" "}

LowerChar(c) ==
    IF \E i \in 1..Len(UpperLetters) : UpperLetters[i] = c
    THEN LowerLetters[CHOOSE i \in 1..Len(UpperLetters) : UpperLetters[i] = c]
    ELSE c

\* F at the value of x; x is evaluated once, however often F uses it
At(F(_), x) == CHOOSE r \in { F(v) : v \in {x} } : TRUE

\* str.lower()
PyLower(s) == At(LAMBDA v : [i \in 1..Len(v) |-> LowerChar(v[i])], s)

MatchAt(s, sub, i) ==
    /\ i >= 1
    /\ i + Len(sub) - 1 <= Len(s)
    /\ SubSeq(s, i, i + Len(sub) - 1) = sub

\* sub in s
PyIn(sub, s) == \E i \in 1..(Len(s) + 1) : MatchAt(s, sub, i)

\* index of the first occurrence of sub in s, 0 when there is none
PyFind(s, sub) ==
    IF PyIn(sub, s)
    THEN CHOOSE i \in 1..(Len(s) + 1) :
            MatchAt(s, sub, i) /\ \A j \in 1..(i - 1) : ~MatchAt(s, sub, j)
    ELSE 0

\* str.split(sep): the pieces between the occurrences of sep, left to right
RECURSIVE PySplit(_, _)
PySplit(s, sep) ==
    At(LAMBDA v : At(LAMBDA i : IF i = 0 THEN <<v>>
                                ELSE <<SubSeq(v, 1, i - 1)>>
                                         \o PySplit(SubSeq(v, i + Len(sep), Len(v)), sep),
                     PyFind(v, sep)),
       s)

\* str.replace(old, ''): every occurrence of old removed, left to right
RECURSIVE PyRemove(_, _)
PyRemove(s, old) ==
    At(LAMBDA v : At(LAMBDA i : IF i = 0 THEN v
                                ELSE SubSeq(v, 1, i - 1)
                                         \o PyRemove(SubSeq(v, i + Len(old), Len(v)), old),
                     PyFind(v, old)),
       s)

RECURSIVE LStrip(_)
LStrip(s) == IF s # <<>> /\ Head(s) \in Whitespace THEN LStrip(Tail(s)) ELSE s

RECURSIVE RStrip(_)
RStrip(s) ==
    IF s # <<>> /\ s[Len(s)] \in Whitespace THEN RStrip(SubSeq(s, 1, Len(s) - 1)) ELSE s

\* str.strip()
PyStrip(s) == At(LAMBDA v : At(RStrip, LStrip(v)), s)

IsDigit(c) == \E i \in 1..Len(DigitChars) : DigitChars[i] = c
DigitVal(c) == (CHOOSE i \in 1..Len(DigitChars) : DigitChars[i] = c) - 1

RECURSIVE DigitsValue(_, _)
DigitsValue(s, acc) ==
    IF s = <<>> THEN acc
    ELSE IF Head(s) = "_" THEN DigitsValue(Tail(s), acc)
    ELSE DigitsValue(Tail(s), acc * Len(DigitChars) + DigitVal(Head(s)))

\* int(s) of a str: surrounding whitespace is ignored, one sign is allowed, the
\* digits may be grouped by single underscores; anything else is a ValueError.
IntOfStripped(t) ==
    LET signed == t # <<>> /\ Head(t) \in {"+", "-"}
        body == IF signed THEN Tail(t) ELSE t
        wellformed ==
            /\ body # <<>>
            /\ \A i \in 1..Len(body) : IsDigit(body[i]) \/ body[i] = "_"
            /\ body[1] # "_" /\ body[Len(body)] # "_"
            /\ \A i \in 1..(Len(body) - 1) : ~(body[i] = "_" /\ body[i + 1] = "_")
    IN IF ~wellformed THEN [ok |-> FALSE, val |-> 0]
       ELSE [ok |-> TRUE,
             val |-> IF signed /\ Head(t) = "-" THEN 0 - DigitsValue(body, 0)
                     ELSE DigitsValue(body, 0)]

PyInt(s) == At(IntOfStripped, PyStrip(s))

-----------------------------------------------------------------------------
(* Text the portals render *)

Spaces(n) == [i \in 1..n |-> " "]

\* decimal digits of a natural number
RECURSIVE Render(_)
Render(n) ==
    IF n < Len(DigitChars) THEN <<DigitChars[n + 1]>>
    ELSE Render(n \div Len(DigitChars)) \o <<DigitChars[(n % Len(DigitChars)) + 1]>>

\* most spaces put between two tokens of a generated usage string
MaxSpaces == 1

UsedValues == {0, 139}
TotalValues == {7, 700}

\* spaces after N, after the first unit, after "of", after M
SpacePatterns == {<<0, 1, 1, 1>>} \cup {<<k, k, k, k>> : k \in 0..MaxSpaces}

\* letter case of the first unit, of the "of" token and of the closing "GB Used"
CasePatterns ==
    { [gb |-> <<"G","B">>, of |-> <<"o","f">>, tail |-> <<"G","B"," ","U","s","e","d">>],
      [gb |-> <<"g","b">>, of |-> <<"O","F">>, tail |-> <<"G","B"," ","U","s","e","d">>],
      [gb |-> <<"G","b">>, of |-> <<"O","f">>, tail |-> <<"g","b"," ","u","s","e","d">>] }

\* "<N>GB of <M> GB Used"
UsageText(n, m, sp, cs) ==
    Render(n) \o Spaces(sp[1]) \o cs.gb \o Spaces(sp[2]) \o cs.of \o Spaces(sp[3])
        \o Render(m) \o Spaces(sp[4]) \o cs.tail

WellFormedUsage ==
    { UsageText(n, m, sp, cs) :
        n \in UsedValues, m \in TotalValues, sp \in SpacePatterns, cs \in CasePatterns }

\* usage strings that are not of the shape, and a signed one
OtherUsage ==
    { <<"1","3","9","G","B"," ","/"," ","7","0","0"," ","G","B"," ","U","s","e","d">>,
      <<"x","G","B"," ","o","f"," ","7","0","0"," ","G","B"," ","U","s","e","d">>,
      <<"1","3","9","G","B"," ","o","f"," ","x"," ","G","B"," ","U","s","e","d">>,
      <<"G","B"," ","o","f"," ","7","0","0"," ","G","B"," ","U","s","e","d">>,
      <<"1","3","9","G","B"," ","o","f"," ","G","B"," ","U","s","e","d">>,
      <<"1"," ","3","G","B"," ","o","f"," ","7"," ","G","B"," ","U","s","e","d">>,
      <<"-","5","G","B"," ","o","f"," ","7"," ","G","B"," ","U","s","e","d">>,
      <<"U","n","l","i","m","i","t","e","d">>,
      <<>> }

\* a span whose .text raises (the element went stale)
Stale == <<"StaleElementReferenceException">>

TopupUsage ==
    { <<"5","G","B"," ","o","f"," ","1","0"," ","G","B"," ","U","s","e","d">>,
      <<"U","n","l","i","m","i","t","e","d">>,
      Stale }

MonthNames == << <<"J","a","n">>, <<"F","e","b">>, <<"M","a","r">>, <<"A","p","r">>,
                 <<"M","a","y">>, <<"J","u","n">>, <<"J","u","l">>, <<"A","u","g">>,
                 <<"S","e","p">>, <<"O","c","t">>, <<"N","o","v">>, <<"D","e","c">> >>

ExpiryDates == { [d |-> 18, mon |-> 6, y |-> 2025], [d |-> 5, mon |-> 1, y |-> 2026] }

\* "Expiry: D Mon YYYY"
ExpiryText(dt) ==
    <<"E","x","p","i","r","y",":"," ">> \o Render(dt.d) \o <<" ">>
        \o MonthNames[dt.mon] \o <<" ">> \o Render(dt.y)

\* what the ".text-muted i" lookup gives: a text, or no such element
NoSuchElement == <<"NoSuchElementException">>
ExpiryTexts ==
    { ExpiryText(dt) : dt \in ExpiryDates }
        \cup { <<"E","x","p","i","r","y",":"," ","s","o","o","n">>, <<>>, NoSuchElement }

ColTexts == { <<>>, << <<"7","0","0"," ","G","B">>, <<"1","0"," ","G","B">> >> }

\* the spans the fallback selector finds when the container never appears
FallbackSpans ==
    { <<>>,
      << <<"1","3","9","G","B"," ","o","f"," ","7","0","0"," ","G","B"," ","U","s","e","d">> >>,
      << Stale >> }

BarLists ==
    { <<>> } \cup { <<b>> : b \in WellFormedUsage \cup OtherUsage \cup {Stale} }
        \cup { <<b, t>> : b \in WellFormedUsage \cup OtherUsage, t \in TopupUsage }

\* the usage page after the form was submitted
Pages ==
    { [url_ok |-> TRUE, container |-> "present", bars |-> b, cols |-> c, expiry |-> e,
       fallback |-> <<>>] : b \in BarLists, c \in ColTexts, e \in ExpiryTexts }
    \cup
    { [url_ok |-> TRUE, container |-> k, bars |-> <<>>, cols |-> <<>>, expiry |-> <<>>,
       fallback |-> f] : k \in {"timeout"}, f \in FallbackSpans }
    \cup
    { [url_ok |-> u, container |-> k, bars |-> <<>>, cols |-> <<>>, expiry |-> <<>>,
       fallback |-> <<>>] : u \in BOOLEAN, k \in {"error"} }

-----------------------------------------------------------------------------
(* imagineScraper.py *)

T_GB_Used == <<"G","B"," ","U","s","e","d">>
T_GB == <<"G","B">>
T_Used == <<"U","s","e","d">>

\* lines 65-74: the loop over the progress-bar spans; a span whose text cannot be
\* read raises out of the loop with what was stored before it.
RECURSIVE ProgressBars(_, _, _)
ProgressBars(bars, i, acc) ==
    IF i > Len(bars) THEN [data |-> acc, exc |-> FALSE]
    ELSE IF bars[i] = Stale THEN [data |-> acc, exc |-> TRUE]
    ELSE LET span_text == PyStrip(bars[i])
             stored ==
                 IF span_text # <<>> /\ PyIn(T_GB_Used, span_text)
                 THEN IF i = 1 THEN DictSet(acc, "Base Plan Usage", span_text)
                      ELSE IF i = 2 THEN DictSet(acc, "Topup Usage", span_text)
                      ELSE acc
                 ELSE acc
         IN ProgressBars(bars, i + 1, stored)

\* lines 77-90: the total allowances
RECURSIVE Allowances(_, _, _)
Allowances(cols, i, acc) ==
    IF i > Len(cols) THEN acc
    ELSE LET text == PyStrip(cols[i])
             stored ==
                 IF PyIn(T_GB, text)
                 THEN IF i = 1 THEN DictSet(acc, "Base Plan Total", text)
                      ELSE IF i = 2 THEN DictSet(acc, "Topup Total", text)
                      ELSE acc
                 ELSE acc
         IN Allowances(cols, i + 1, stored)

\* lines 92-100: the expiry text, when the element exists and is not empty
Expiry(expiry, acc) ==
    IF expiry = NoSuchElement THEN acc
    ELSE LET expiry_text == PyStrip(expiry)
         IN IF expiry_text # <<>> THEN DictSet(acc, "Topup Expiry", expiry_text) ELSE acc

FallbackKeys == <<"Usage Data 1", "Usage Data 2">>

\* lines 112-124: the spans found without the container
RECURSIVE Alternative(_, _, _)
Alternative(spans, i, acc) ==
    IF i > Len(spans) \/ spans[i] = Stale THEN acc
    ELSE LET span_text == PyStrip(spans[i])
         IN Alternative(spans, i + 1,
                IF PyIn(T_GB, span_text) /\ PyIn(T_Used, span_text)
                THEN DictSet(acc, FallbackKeys[i], span_text) ELSE acc)

\* scrape_usage_data(driver): the dict of raw strings found on the page p
scrape_usage_data(p) ==
    IF p.container = "timeout" THEN Alternative(p.fallback, 1, EmptyDict)
    ELSE IF p.container = "error" THEN EmptyDict
    ELSE LET bars == ProgressBars(p.bars, 1, EmptyDict)
         IN IF bars.exc THEN bars.data
            ELSE Expiry(p.expiry, Allowances(p.cols, 1, bars.data))

T_of == <<"o","f">>
T_gb == <<"g","b">>

\* mqtt_publisher._parse_imagine_usage and _parse_date_string: both bodies are
\* "pass"; they return None and no script calls them.
parse_imagine_usage(usage_string) == None
parse_date_string(date_string) == None

\* ParseBasePlanUsage with the unit left in the used part
ParseBasePlanUsage_UnitKept(usage_string) ==
    LET parts == PySplit(PyLower(usage_string), T_of) IN
    IF Len(parts) < 2 THEN [payload |-> EmptyDict, error |-> "IndexError"]
    ELSE
    LET used == PyInt(PyStrip(parts[1]))
        total == PyInt(PyStrip(PySplit(parts[2], T_gb)[1]))
    IN IF ~used.ok THEN [payload |-> EmptyDict, error |-> "ValueError"]
       ELSE IF ~total.ok
       THEN [payload |-> DictSet(EmptyDict, "base_plan_used_gb", used.val),
             error |-> "ValueError"]
       ELSE [payload |-> DictSet(DictSet(EmptyDict, "base_plan_used_gb", used.val),
                                 "base_plan_total_gb", total.val),
             error |-> ""]

\* lines 273-284: the parse of the "Base Plan Usage" string into the payload;
\* error is the exception the try block ended with, "" when it ran through.
ParseBasePlanUsage(usage_string) ==
    LET parts == PySplit(PyLower(usage_string), T_of) IN
    IF Len(parts) < 2 THEN [payload |-> EmptyDict, error |-> "IndexError"]
    ELSE
    LET used_part == PyStrip(PyRemove(parts[1], T_gb))
        total_part == PyStrip(PySplit(parts[2], T_gb)[1])
        used == PyInt(used_part)
        total == PyInt(total_part)
    IN IF ~used.ok THEN [payload |-> EmptyDict, error |-> "ValueError"]
       ELSE IF ~total.ok
       THEN [payload |-> DictSet(EmptyDict, "base_plan_used_gb", used.val),
             error |-> "ValueError"]
       ELSE [payload |-> DictSet(DictSet(EmptyDict, "base_plan_used_gb", used.val),
                                 "base_plan_total_gb", total.val),
             error |-> ""]

-----------------------------------------------------------------------------
(* The sinks *)

\* timedelta(hours=8): the fixed offset of the capture time
BruneiOffsetHours == 8

\* the capture time left in UTC
BruneiNowIso_Utc == [format |-> "ISO-8601", utc_offset_hours |-> 0]

\* datetime.now(timezone.utc).astimezone(brunei_tz).isoformat()
BruneiNowIso == [format |-> "ISO-8601", utc_offset_hours |-> BruneiOffsetHours]

\* mqtt_publisher.publish_imagine_json: the body is "pass", the call returns None
publish_imagine_json(data_dict) == None

T_NA == <<"N","/","A">>

DictGet(d, k, default) == IF k \in DOMAIN d THEN d[k] ELSE default

\* excel_exporter.export_imagine_data, lines 103-121: the sheets it configures
ImagineSheets(data) ==
    IF "Base Plan Usage" \in DOMAIN data \/ "Topup Usage" \in DOMAIN data
    THEN DictSet(EmptyDict, "Usage Breakdown",
            (IF "Base Plan Usage" \in DOMAIN data
             THEN << [plan_type |-> "Base Plan",
                      usage_info |-> data["Base Plan Usage"],
                      total_allowance |-> DictGet(data, "Base Plan Total", T_NA)] >>
             ELSE <<>>)
            \o
            (IF "Topup Usage" \in DOMAIN data
             THEN << [plan_type |-> "Topup",
                      usage_info |-> data["Topup Usage"],
                      total_allowance |-> DictGet(data, "Topup Total", T_NA),
                      expiry |-> DictGet(data, "Topup Expiry", T_NA)] >>
             ELSE <<>>))
    ELSE EmptyDict

\* excel_exporter.export_imagine_data: it returns None before writing when given
\* no data, and otherwise hands the data and its sheets to export_to_excel
export_imagine_data(data) ==
    IF data = EmptyDict THEN [writes |-> FALSE]
    ELSE [writes |-> TRUE, data |-> data, filename_prefix |-> "ImagineUsageData",
          sheets_config |-> ImagineSheets(data)]

-----------------------------------------------------------------------------
(* imagineScraper.py: main(), from the try block of line 207 *)

NavWaits == <<"txtServiceNo", "txtAccountNo", "btnCheck">>

\* lines 208-259: the form is filled in; each wait may time out, each interaction fail
main_fill_form ==
    /\ \E k \in 1..Len(NavWaits), outcome \in {"ok", "TimeoutException", "Exception"} :
          /\ ipc = NavWaits[k]
          /\ ipc' = IF outcome # "ok" THEN "finally"
                    ELSE IF k < Len(NavWaits) THEN NavWaits[k + 1] ELSE "url_check"
    /\ UNCHANGED <<page, usage_data, mqtt_payload, parse_error, published, exported,
                   browser_open>>
    /\ UNCHANGED <<tableVars, meterVars, startVars, mqttVars, headVars, exportVars>>

\* lines 261-265 and 314-323: scrape on the results page, or report and stop
main_scrape ==
    /\ ipc = "url_check"
    /\ IF page.url_ok
       THEN /\ usage_data' = scrape_usage_data(page)
            /\ ipc' = IF usage_data' # EmptyDict THEN "parse" ELSE "finally"
       ELSE /\ usage_data' = usage_data
            /\ ipc' = "finally"
    /\ UNCHANGED <<page, mqtt_payload, parse_error, published, exported, browser_open>>
    /\ UNCHANGED <<tableVars, meterVars, startVars, mqttVars, headVars, exportVars>>

\* lines 270-284: the payload is prepared from "Base Plan Usage"
main_parse ==
    /\ ipc = "parse"
    /\ IF "Base Plan Usage" \in DOMAIN usage_data
       THEN LET r == ParseBasePlanUsage(usage_data["Base Plan Usage"])
            IN /\ mqtt_payload' = r.payload
               /\ parse_error' = (r.error # "")
       ELSE /\ mqtt_payload' = EmptyDict
            /\ parse_error' = FALSE
    /\ ipc' = "publish"
    /\ UNCHANGED <<page, usage_data, published, exported, browser_open>>
    /\ UNCHANGED <<tableVars, meterVars, startVars, mqttVars, headVars, exportVars>>

\* ShouldPublish looking at the used value only
ShouldPublish_UsedOnly(payload) == "base_plan_used_gb" \in DOMAIN payload

\* line 286: the condition under which the payload is published
ShouldPublish(payload) ==
    "base_plan_used_gb" \in DOMAIN payload /\ "base_plan_total_gb" \in DOMAIN payload

\* lines 286-305: publish with the timestamp, or skip
main_publish ==
    /\ ipc = "publish"
    /\ IF ShouldPublish(mqtt_payload)
       THEN /\ mqtt_payload' = DictSet(mqtt_payload, "mqtt_timestamp", BruneiNowIso)
            /\ published' = Append(published,
                   [payload |-> mqtt_payload', result |-> publish_imagine_json(mqtt_payload')])
       ELSE UNCHANGED <<mqtt_payload, published>>
    /\ ipc' = "export"
    /\ UNCHANGED <<page, usage_data, parse_error, exported, browser_open>>
    /\ UNCHANGED <<tableVars, meterVars, startVars, mqttVars, headVars, exportVars>>

\* lines 306-313: the spreadsheet export; the writer may fail, which is reported
main_export ==
    /\ ipc = "export"
    /\ \E written \in BOOLEAN :
          exported' = Append(exported,
              [bundle |-> export_imagine_data(usage_data),
               written |-> written /\ export_imagine_data(usage_data).writes])
    /\ ipc' = "finally"
    /\ UNCHANGED <<page, usage_data, mqtt_payload, parse_error, published, browser_open>>
    /\ UNCHANGED <<tableVars, meterVars, startVars, mqttVars, headVars, exportVars>>

\* lines 334-337: the browser is closed
main_finally ==
    /\ ipc = "finally"
    /\ browser_open' = FALSE
    /\ ipc' = "done"
    /\ UNCHANGED <<page, usage_data, mqtt_payload, parse_error, published, exported>>
    /\ UNCHANGED <<tableVars, meterVars, startVars, mqttVars, headVars, exportVars>>

-----------------------------------------------------------------------------
(* Initial states and specifications *)

ImagineIdle ==
    /\ ipc = "idle" /\ page = [url_ok |-> FALSE] /\ usage_data = EmptyDict
    /\ mqtt_payload = EmptyDict /\ parse_error = FALSE
    /\ published = <<>> /\ exported = <<>> /\ browser_open = FALSE

TableIdle ==
    /\ tpc = "idle" /\ dom = [root |-> FALSE] /\ hourly_data = <<>>
    /\ total_consumption = None /\ row_i = 1 /\ raised = FALSE /\ returns = <<>>

MetersIdle ==
    /\ mpc = "idle" /\ script = "none" /\ cards = [my_frame |-> FALSE] /\ frame = "default"
    /\ all_meter_data = EmptyDict /\ dynamic_values = EmptyDict /\ looked_up = <<>>
    /\ hourly_consumption = <<>> /\ total_kwh = None
    /\ usms_published = <<>> /\ usms_exported = <<>>

StartIdle ==
    /\ spc = "idle" /\ run_script = "none" /\ cred_file = [kind |-> "missing"]
    /\ credentials = <<None, None>> /\ console = <<>> /\ requests = <<>>
    /\ current_url = <<>>

MqttIdle ==
    /\ qpc = "idle" /\ mqtt_call = [name |-> "none"] /\ mqtt_file = [kind |-> "missing"]
    /\ mqtt_config = [is_none |-> TRUE, value |-> EmptyDict] /\ client = "none"
    /\ broker = "none" /\ wire = <<>> /\ connection_successful = FALSE
    /\ mqtt_result = "not returned"

HeadlessIdle ==
    hpc = "idle" /\ events = <<>> /\ nav_end = [exc |-> "", at |-> ""]

ExportIdle ==
    /\ xpc = "idle" /\ export_call = [fn |-> "none"]
    /\ export_outcome = [result |-> "not returned", raised |-> "", written |-> "none"]

\* imagineScraper.main() with the browser open on the usage page
InitImagine ==
    /\ ipc = NavWaits[1]
    /\ page \in Pages
    /\ usage_data = EmptyDict
    /\ mqtt_payload = EmptyDict
    /\ parse_error = FALSE
    /\ published = <<>>
    /\ exported = <<>>
    /\ browser_open = TRUE
    /\ TableIdle
    /\ MetersIdle
    /\ StartIdle
    /\ MqttIdle
    /\ HeadlessIdle
    /\ ExportIdle

NextImagine ==
    \/ main_fill_form
    \/ main_scrape
    \/ main_parse
    \/ main_publish
    \/ main_export
    \/ main_finally

SpecImagine == InitImagine /\ [][NextImagine]_vars

-----------------------------------------------------------------------------
(* Claims about the Imagine pipeline *)

AfterParse == {"publish", "export", "finally", "done"}
HasBasePlanUsage == "Base Plan Usage" \in DOMAIN usage_data

T_139GB_of_700_GB_Used ==
    <<"1","3","9","G","B"," ","o","f"," ","7","0","0"," ","G","B"," ","U","s","e","d">>

\* C1: once the parse has run on a Base Plan usage string of the shape
\* "<N>GB of <M> GB Used" (any of the letter cases and spacings), the payload holds
\* base_plan_used_gb = N and base_plan_total_gb = M and no parse error was reported.
C1_WellFormedUsageParsed ==
    (ipc \in AfterParse /\ HasBasePlanUsage) =>
        \A n \in UsedValues, m \in TotalValues, sp \in SpacePatterns, cs \in CasePatterns :
            usage_data["Base Plan Usage"] = UsageText(n, m, sp, cs) =>
                /\ ~parse_error
                /\ ShouldPublish(mqtt_payload)
                /\ mqtt_payload["base_plan_used_gb"] = n
                /\ mqtt_payload["base_plan_total_gb"] = m

\* C1 witness: "139GB of 700 GB Used" was parsed to (139, 700).
C1_Witness ==
    /\ ipc = "publish" /\ HasBasePlanUsage
    /\ usage_data["Base Plan Usage"] = T_139GB_of_700_GB_Used
    /\ ShouldPublish(mqtt_payload)
    /\ mqtt_payload["base_plan_used_gb"] = 139
    /\ mqtt_payload["base_plan_total_gb"] = 700

\* usage strings with no "of" token, or with a side that is no integer once the
\* unit is removed
MalformedUsage ==
    { <<"1","3","9","G","B"," ","/"," ","7","0","0"," ","G","B"," ","U","s","e","d">>,
      <<"x","G","B"," ","o","f"," ","7","0","0"," ","G","B"," ","U","s","e","d">>,
      <<"1","3","9","G","B"," ","o","f"," ","x"," ","G","B"," ","U","s","e","d">>,
      <<"G","B"," ","o","f"," ","7","0","0"," ","G","B"," ","U","s","e","d">>,
      <<"1","3","9","G","B"," ","o","f"," ","G","B"," ","U","s","e","d">>,
      <<"1"," ","3","G","B"," ","o","f"," ","7"," ","G","B"," ","U","s","e","d">> }

\* C2: a Base Plan usage string that does not match the pattern makes the parse
\* report a failure, and after a failed parse the payload holds neither
\* base_plan_used_gb nor base_plan_total_gb.
C2_FailedParseLeavesNoValue ==
    (ipc \in AfterParse /\ HasBasePlanUsage) =>
        /\ usage_data["Base Plan Usage"] \in MalformedUsage => parse_error
        /\ parse_error =>
              /\ "base_plan_used_gb" \notin DOMAIN mqtt_payload
              /\ "base_plan_total_gb" \notin DOMAIN mqtt_payload

\* C3: a payload is handed to publish_imagine_json only in a run whose Base Plan
\* usage was parsed without error, at most once; and every finished run that
\* gathered usage data attempted the spreadsheet export, with no publish when the
\* parse failed or there was no "Base Plan Usage" key.
C3_PublishOnlyAfterFullParse ==
    /\ Len(published) <= 1
    /\ published # <<>> => (HasBasePlanUsage /\ ~parse_error)
    /\ (ipc \in {"finally", "done"} /\ usage_data # EmptyDict) =>
          /\ Len(exported) = 1
          /\ exported[1].bundle.writes
          /\ (parse_error \/ ~HasBasePlanUsage) => published = <<>>
          /\ (HasBasePlanUsage /\ ~parse_error) => Len(published) = 1

\* C3 witness: a finished run that found only fallback keys skipped the publish
\* and attempted the export.
C3_Witness ==
    /\ ipc = "done"
    /\ "Usage Data 1" \in DOMAIN usage_data
    /\ published = <<>>
    /\ Len(exported) = 1

\* the ISO date YYYY-MM-DD of a date
Pad2(n) == IF n < Len(DigitChars) THEN <<"0">> \o Render(n) ELSE Render(n)
IsoDate(dt) == Render(dt.y) \o <<"-">> \o Pad2(dt.mon) \o <<"-">> \o Pad2(dt.d)

\* the parsed record names the date topup_expiry_date
CarriesIsoExpiry(record, dt) ==
    "topup_expiry_date" \in DOMAIN record /\ record["topup_expiry_date"] = IsoDate(dt)

\* the raw strings handed to the spreadsheet hold the date under some key
HoldsIsoExpiry(data, dt) == \E k \in DOMAIN data : data[k] = IsoDate(dt)

\* C10: when an expiry string "Expiry: D Mon YYYY" was scraped, a usage record
\* handed to a sink carries the ISO date YYYY-MM-DD.
C10_ExpiryHandedOverAsIso ==
    \A dt \in ExpiryDates :
        ( /\ "Topup Expiry" \in DOMAIN usage_data
          /\ usage_data["Topup Expiry"] = ExpiryText(dt)
          /\ (published # <<>> \/ exported # <<>>) ) =>
            \/ \E i \in 1..Len(published) : CarriesIsoExpiry(published[i].payload, dt)
            \/ \E i \in 1..Len(exported) : HoldsIsoExpiry(exported[i].bundle.data, dt)

-----------------------------------------------------------------------------
(* scrape_data_from_table: scraper.py 52-101, the same text in usmsScraper.py  *)
(* 52-101 and scraper_headless.py 27-80                                      *)

\* most data rows of a generated table
MaxRows == 2
\* calls of scrape_data_from_table made on one page state
MaxCalls == 2

\* a data row is the sequence of the texts of its td cells
DataRows ==
    { <<"01:00", "0.500">>, <<"02:00", "0.500">>, <<"01:00", "0.740">>,
      <<"01:00">>, <<"01:00", "0.500", "kWh">>, <<>> }

RECURSIVE SeqsUpTo(_, _)
SeqsUpTo(S, n) ==
    IF n = 0 THEN { <<>> }
    ELSE SeqsUpTo(S, n - 1) \cup { Append(q, x) : q \in SeqsUpTo(S, n - 1), x \in S }

T_TotalUnits == <<"T","o","t","a","l"," ","u","n","i","t","s",":">>

\* the td texts of the footer row
FooterCells ==
    { << <<>>, T_TotalUnits \o <<" ","1","8",".","2","4","0">> >>,
      << <<>>, <<" ">> \o T_TotalUnits \o <<"1","8",".","2","4","0"," "," ">> >>,
      << <<>>, T_TotalUnits \o <<" ","1","8",":","2","4","0">> >>,
      << <<>>, T_TotalUnits \o <<" ">> >>,
      << <<>>, <<"T","o","t","a","l",":"," ","1","8",".","2","4","0">> >>,
      << <<>>, <<"t","o","t","a","l"," ","u","n","i","t","s",":"," ","5">> >>,
      << T_TotalUnits \o <<" ","1","8",".","2","4","0">> >>,
      << <<>>, <<>>, T_TotalUnits \o <<" ","1","8",".","2","4","0">> >> }

\* The data-table view.  root, footer_table: the element appears within the wait;
\* footer_row: the footer table holds the footer row; stale_row: the data row whose
\* cells cannot be read (0: every row can).
Doms ==
    { [root |-> TRUE, rows |-> r, stale_row |-> k, footer_table |-> ft,
       footer_row |-> fr, footer_cells |-> fc] :
         r \in SeqsUpTo(DataRows, MaxRows), k \in 0..MaxRows,
         ft \in BOOLEAN, fr \in BOOLEAN, fc \in FooterCells }
    \cup
    { [root |-> FALSE, rows |-> <<>>, stale_row |-> 0, footer_table |-> FALSE,
       footer_row |-> FALSE, footer_cells |-> << <<>> >>] }

\* the program's page states: a stale row is one of the rows, and what is not
\* there has one description
ValidDom(d) ==
    /\ d.stale_row <= Len(d.rows)
    /\ ~d.footer_table => ~d.footer_row
    /\ ~d.footer_row => d.footer_cells = << <<>>, T_TotalUnits \o <<" ","1","8",".","2","4","0">> >>

\* "except Exception" of line 98 catches every exception class raised by the driver
Catches(handler, exc) == handler = "Exception" \/ handler = exc

\* a handler for timeouts only
TableHandler_TimeoutOnly == "TimeoutException"

\* line 98: except Exception
TableHandler == "Exception"

\* the step that follows an exception raised inside the try block of lines 56-99
AfterException(exc) == IF Catches(TableHandler, exc) THEN "return" ELSE "raised"

\* scrape_enter without fresh locals: the previous call's values stay
scrape_enter_NoReset ==
    /\ tpc = "call"
    /\ tpc' = "wait_root"
    /\ row_i' = 1
    /\ UNCHANGED <<dom, hourly_data, total_consumption, raised, returns>>
    /\ UNCHANGED <<imagineVars, meterVars, startVars, mqttVars, headVars, exportVars>>

\* lines 53-54: hourly_data = [], total_consumption = None
scrape_enter ==
    /\ tpc = "call"
    /\ hourly_data' = <<>>
    /\ total_consumption' = None
    /\ row_i' = 1
    /\ tpc' = "wait_root"
    /\ UNCHANGED <<dom, raised, returns>>
    /\ UNCHANGED <<imagineVars, meterVars, startVars, mqttVars, headVars, exportVars>>

\* lines 58-66: the wait for the table root, then the data rows are listed
scrape_wait_root ==
    /\ tpc = "wait_root"
    /\ tpc' = IF dom.root THEN "rows" ELSE AfterException("TimeoutException")
    /\ raised' = (raised \/ tpc' = "raised")
    /\ UNCHANGED <<dom, hourly_data, total_consumption, row_i, returns>>
    /\ UNCHANGED <<imagineVars, meterVars, startVars, mqttVars, headVars, exportVars>>

\* RowReading that also takes rows of more than two cells
RowReading_AtLeastTwo(acc, cols) ==
    IF Len(cols) >= 2
    THEN Append(acc, [hour |-> cols[1], consumption_kWh |-> cols[2]])
    ELSE acc

\* lines 70-75: a row of two cells is appended, any other row is skipped
RowReading(acc, cols) ==
    IF Len(cols) = 2
    THEN Append(acc, [hour |-> cols[1], consumption_kWh |-> cols[2]])
    ELSE acc

\* lines 68-75: one pass of the loop over data_rows
scrape_row ==
    /\ tpc = "rows"
    /\ row_i <= Len(dom.rows)
    /\ IF dom.stale_row = row_i
       THEN /\ tpc' = AfterException("StaleElementReferenceException")
            /\ UNCHANGED <<hourly_data, row_i>>
       ELSE /\ hourly_data' = RowReading(hourly_data, dom.rows[row_i])
            /\ row_i' = row_i + 1
            /\ tpc' = "rows"
    /\ raised' = (raised \/ tpc' = "raised")
    /\ UNCHANGED <<dom, total_consumption, returns>>
    /\ UNCHANGED <<imagineVars, meterVars, startVars, mqttVars, headVars, exportVars>>

T_Colon == <<":">>

\* lines 86-94: the total from the footer row's cells, None when it is left unset
FooterTotal(cols) ==
    IF Len(cols) = 2 /\ PyIn(T_TotalUnits, cols[2])
    THEN LET pieces == PySplit(cols[2], T_Colon) IN PyStrip(pieces[Len(pieces)])
    ELSE None

\* lines 80-96: after the loop, the footer table is awaited and the footer row read
scrape_footer ==
    /\ tpc = "rows"
    /\ row_i > Len(dom.rows)
    /\ IF ~dom.footer_table
       THEN /\ tpc' = AfterException("TimeoutException")
            /\ UNCHANGED total_consumption
       ELSE IF ~dom.footer_row
       THEN /\ tpc' = AfterException("NoSuchElementException")
            /\ UNCHANGED total_consumption
       ELSE /\ total_consumption' = FooterTotal(dom.footer_cells)
            /\ tpc' = "return"
    /\ raised' = (raised \/ tpc' = "raised")
    /\ UNCHANGED <<dom, hourly_data, row_i, returns>>
    /\ UNCHANGED <<imagineVars, meterVars, startVars, mqttVars, headVars, exportVars>>

\* line 101: return hourly_data, total_consumption; the caller may call again
scrape_return ==
    /\ tpc = "return"
    /\ returns' = Append(returns,
           [hourly_data |-> hourly_data, total_consumption |-> total_consumption])
    /\ tpc' = IF Len(returns') < MaxCalls THEN "call" ELSE "done"
    /\ UNCHANGED <<dom, hourly_data, total_consumption, row_i, raised>>
    /\ UNCHANGED <<imagineVars, meterVars, startVars, mqttVars, headVars, exportVars>>

InitTable ==
    /\ tpc = "call"
    /\ dom \in { d \in Doms : ValidDom(d) }
    /\ hourly_data = <<>>
    /\ total_consumption = None
    /\ row_i = 1
    /\ raised = FALSE
    /\ returns = <<>>
    /\ ImagineIdle
    /\ MetersIdle
    /\ StartIdle
    /\ MqttIdle
    /\ HeadlessIdle
    /\ ExportIdle

NextTable ==
    \/ scrape_enter
    \/ scrape_wait_root
    \/ scrape_row
    \/ scrape_footer
    \/ scrape_return

SpecTable == InitTable /\ [][NextTable]_vars

-----------------------------------------------------------------------------
(* Claims about scrape_data_from_table *)

\* the readings of the two-cell rows of a table, in row order
TwoCellReadings(rows) ==
    LET two == SelectSeq(rows, LAMBDA r : Len(r) = 2)
    IN [i \in 1..Len(two) |-> [hour |-> two[i][1], consumption_kWh |-> two[i][2]]]

RowsReadable == dom.root /\ dom.stale_row = 0
FooterReadable == RowsReadable /\ dom.footer_table /\ dom.footer_row

\* C4: when the table is found and its rows can be read, every call returns
\* exactly the readings of the two-cell rows, in row order and with duplicates;
\* rows of another cell count are left out and the rows after them are extracted.
C4_TwoCellRowsInOrder ==
    \A i \in 1..Len(returns) :
        RowsReadable => returns[i].hourly_data = TwoCellReadings(dom.rows)

\* C4 witness: a row of another cell count came before a two-cell row, and the
\* call returned the later row's reading.
C4_Witness ==
    /\ returns # <<>>
    /\ RowsReadable
    /\ Len(dom.rows) = 2 /\ Len(dom.rows[1]) # 2 /\ Len(dom.rows[2]) = 2
    /\ returns[1].hourly_data =
           << [hour |-> dom.rows[2][1], consumption_kWh |-> dom.rows[2][2]] >>

\* the text that follows the first occurrence of label in s
TextAfter(s, label) == SubSeq(s, PyFind(s, label) + Len(label), Len(s))

\* C5: when the footer row is read, the total is the text following the label
\* "Total units:" of the second of two cells, stripped; without the label, or with
\* another cell count, the total is unset.
C5_TotalIsTextAfterLabel ==
    \A i \in 1..Len(returns) :
        FooterReadable =>
            returns[i].total_consumption =
                IF Len(dom.footer_cells) = 2 /\ PyIn(T_TotalUnits, dom.footer_cells[2])
                THEN PyStrip(TextAfter(dom.footer_cells[2], T_TotalUnits))
                ELSE None

\* C6: no exception leaves scrape_data_from_table; without the table root a call
\* returns no readings and no total; after a later failure (a row that cannot be
\* read, a missing footer table or footer row) it returns the readings gathered
\* before the failure and no total.
C6_FailuresStayInside ==
    /\ ~raised
    /\ tpc # "raised"
    /\ \A i \in 1..Len(returns) :
          /\ ~dom.root =>
                returns[i] = [hourly_data |-> <<>>, total_consumption |-> None]
          /\ (dom.root /\ dom.stale_row > 0) =>
                returns[i] =
                    [hourly_data |->
                         TwoCellReadings(SubSeq(dom.rows, 1, dom.stale_row - 1)),
                     total_consumption |-> None]
          /\ (RowsReadable /\ ~FooterReadable) =>
                returns[i] = [hourly_data |-> TwoCellReadings(dom.rows),
                              total_consumption |-> None]

\* C6 witness: the second row could not be read, and the call returned the first
\* row's reading.
C6_Witness ==
    /\ returns # <<>>
    /\ dom.root /\ dom.stale_row = 2
    /\ Len(returns[1].hourly_data) = 1
    /\ returns[1].total_consumption = None

\* C9: the calls made on one unchanged page state return the same readings and
\* the same total.
C9_SecondCallSameResult ==
    \A i, j \in 1..Len(returns) : returns[i] = returns[j]

\* C9 witness: two calls returned the same non-empty readings and the same total.
C9_Witness ==
    /\ Len(returns) = 2
    /\ returns[1].hourly_data # <<>>
    /\ returns[1].total_consumption # None
    /\ returns[2] = returns[1]

-----------------------------------------------------------------------------
(* Meter cards: usmsScraper.py scrape_meter_data / scrape_all_meters and       *)
(* scraper.py scrape_dynamic_values                                          *)

\* most field lookups of one account page that fail
MaxFaults == 1

\* usmsScraper.py lines 116-128, in dict order
FieldNames ==
    <<"Meter No", "Full Name", "Meter Status", "Address", "Kampong", "Mukim",
      "District", "Postcode", "Remaining Unit", "Remaining Balance", "Last Updated">>

\* scraper.py lines 122-126, in dict order
DynamicNames == <<"Remaining Unit", "Remaining Balance", "Last Updated">>

FieldSet(names) == { names[i] : i \in 1..Len(names) }

\* usmsScraper.py line 109
MeterType(meter_index) == IF meter_index = 0 THEN "Electricity" ELSE "Water"

\* the text the page shows in a field of a card
CardText(meter_index, field) == <<"text", MeterType(meter_index), field>>

Slots == {0, 1}
Lookups == Slots \X FieldSet(FieldNames)

\* which lookups fail, and how: the wait times out, or the element read raises
FaultMaps ==
    { [l \in Lookups |-> IF l \in DOMAIN f THEN f[l] ELSE "ok"] :
        f \in UNION { [F -> {"TimeoutException", "StaleElementReferenceException"}] :
                        F \in { G \in SUBSET Lookups : Cardinality(G) <= MaxFaults } } }

\* the account page: which cards exist, which lookups fail, whether MyFrame appears
CardPages ==
    { [present |-> pr, faults |-> fm, my_frame |-> mf] :
        pr \in [Slots -> BOOLEAN], fm \in FaultMaps, mf \in BOOLEAN }

\* The loop over the fields of one card.  A failing lookup that one of the loop's
\* own handlers catches stores None and the loop goes on; any other exception
\* leaves the loop.  Gives the dict, the fields whose lookup was started, and
\* whether an exception left the loop.
RECURSIVE FieldLoop(_, _, _, _, _, _, _)
FieldLoop(names, meter_index, faults, handlers, i, acc, started) ==
    IF i > Len(names) THEN [data |-> acc, started |-> started, exc |-> FALSE]
    ELSE LET field == names[i]
             outcome == faults[<<meter_index, field>>]
             now == Append(started, <<meter_index, field>>)
         IN IF outcome = "ok"
            THEN FieldLoop(names, meter_index, faults, handlers, i + 1,
                           DictSet(acc, field, CardText(meter_index, field)), now)
            ELSE IF \E h \in handlers : Catches(h, outcome)
            THEN FieldLoop(names, meter_index, faults, handlers, i + 1,
                           DictSet(acc, field, None), now)
            ELSE [data |-> acc, started |-> now, exc |-> TRUE]

\* the handlers of scraper.py's loop in the place of usmsScraper.py's
MeterFieldHandlers_TimeoutOnly == {"TimeoutException"}

\* usmsScraper.py lines 139-144: except TimeoutException, except Exception
MeterFieldHandlers == {"TimeoutException", "Exception"}

\* scraper.py lines 136-138: except TimeoutException
DynamicFieldHandlers == {"TimeoutException"}

\* usmsScraper.scrape_meter_data(driver, meter_index): the record and the lookups
\* it started; an exception that leaves the loop skips line 147 and the record
\* gathered so far is returned
scrape_meter_data(p, meter_index) ==
    LET r == FieldLoop(FieldNames, meter_index, p.faults, MeterFieldHandlers, 1,
                       EmptyDict, <<>>)
    IN [data |-> IF r.exc THEN r.data
                 ELSE DictSet(r.data, "Meter Type", MeterType(meter_index)),
        started |-> r.started]

\* AvailableMeters that takes both slots whatever the probes find
AvailableMeters_Both(p) == <<0, 1>>

\* usmsScraper.py lines 173-188: the cards the probes find, in probe order
AvailableMeters(p) ==
    (IF p.present[0] THEN <<0>> ELSE <<>>) \o (IF p.present[1] THEN <<1>> ELSE <<>>)

MeterKey(meter_index) == IF meter_index = 0 THEN "electricity" ELSE "water"

\* usmsScraper.py lines 190-198: each available meter is scraped, stamped and
\* stored under its lower-case name
RECURSIVE MetersLoop(_, _, _, _, _)
MetersLoop(p, avail, i, acc, started) ==
    IF i > Len(avail) THEN [data |-> acc, started |-> started]
    ELSE LET m == scrape_meter_data(p, avail[i])
             meter_data ==
                 IF m.data # EmptyDict
                 THEN DictSet(m.data, "Script Execution Time", BruneiNowIso)
                 ELSE m.data
         IN MetersLoop(p, avail, i + 1, DictSet(acc, MeterKey(avail[i]), meter_data),
                       started \o m.started)

\* a handler that leaves the frame context where the exception found it
FrameAfterError_Stays(fr) == fr

\* scraper.py 144-151, usmsScraper.py 204-210: the handler of the extractor's
\* try block switches back to the default content
FrameAfterError(fr) == "default"

\* usmsScraper.scrape_all_meters(driver): without MyFrame the wait of line 169
\* times out and the empty dict is returned; with it the cards are scraped inside
\* MyFrame and line 201 switches back.  frame is the frame context at the return.
scrape_all_meters(p) ==
    IF ~p.my_frame
    THEN [data |-> EmptyDict, started |-> <<>>, frame |-> FrameAfterError("default")]
    ELSE LET r == MetersLoop(p, AvailableMeters(p), 1, EmptyDict, <<>>)
         IN [data |-> r.data, started |-> r.started, frame |-> "default"]

\* scraper.scrape_dynamic_values(driver): the three values of the first card; an
\* exception other than a timeout leaves the loop for the handler of line 144;
\* line 141 switches back after the loop
scrape_dynamic_values(p) ==
    IF ~p.my_frame
    THEN [data |-> EmptyDict, started |-> <<>>, frame |-> FrameAfterError("default")]
    ELSE LET r == FieldLoop(DynamicNames, 0, p.faults, DynamicFieldHandlers, 1,
                            EmptyDict, <<>>)
         IN [data |-> r.data, started |-> r.started,
             frame |-> IF r.exc THEN FrameAfterError("MyFrame") ELSE "default"]

-----------------------------------------------------------------------------
(* The USMS scripts after a successful login: usmsScraper.py 348-508 and       *)
(* scraper.py 293-437                                                        *)

\* d.update(e)
DictUpdate(d, e) == [k \in DOMAIN d \cup DOMAIN e |-> IF k \in DOMAIN e THEN e[k] ELSE d[k]]

\* truth value of a list or dict
Truthy(v) == v # <<>>

\* truth value of a str or None
TruthyText(v) == v # None /\ v # <<>>

\* mqtt_publisher.publish_usms_json: the body is "pass", the call returns None
publish_usms_json(data_dict) == None

\* excel_exporter.export_usms_data, lines 150-167: the sheets it configures
UsmsSheets(total, dyn, meters) ==
    LET summary ==
            IF TruthyText(total) \/ Truthy(dyn)
            THEN DictSet(EmptyDict, "Account Summary",
                     DictUpdate(IF TruthyText(total)
                                THEN DictSet(EmptyDict, "Total Consumption (kWh)", total)
                                ELSE EmptyDict,
                                IF Truthy(dyn) THEN dyn ELSE EmptyDict))
            ELSE EmptyDict
        electricity ==
            IF Truthy(meters) /\ "electricity" \in DOMAIN meters
            THEN DictSet(summary, "Electricity Meter", meters["electricity"])
            ELSE summary
    IN IF Truthy(meters) /\ "water" \in DOMAIN meters
       THEN DictSet(electricity, "Water Meter", meters["water"])
       ELSE electricity

\* excel_exporter.export_usms_data: None without data, else the main data and the
\* sheets handed to export_to_excel
export_usms_data(hourly, total, dyn, meters) ==
    IF ~Truthy(hourly) /\ ~Truthy(meters) THEN [writes |-> FALSE]
    ELSE [writes |-> TRUE,
          data |-> IF Truthy(hourly) THEN hourly ELSE meters,
          filename_prefix |-> "MeterData",
          sheets_config |-> UsmsSheets(total, dyn, meters)]

\* the waits between the meter cards and the data table (usmsScraper.py 379-422,
\* scraper.py 314-357)
UsmsNavWaits ==
    <<"frame 0", "consumption link", "cboType_B-1Img", "cboType_DDD_L_LBI3T0",
      "btnRefresh_CD", "ASPxPageControl1_T1T">>

\* what scrape_data_from_table can hand back to the script
TableResults ==
    { [hourly_data |-> <<>>, total_consumption |-> None],
      [hourly_data |-> <<>>, total_consumption |-> <<"0",".","0","0","0">>],
      [hourly_data |-> << [hour |-> "01:00", consumption_kWh |-> "0.500"] >>,
       total_consumption |-> None],
      [hourly_data |-> << [hour |-> "01:00", consumption_kWh |-> "0.500"] >>,
       total_consumption |-> <<"1","8",".","2","4","0">>] }

\* usmsScraper.py 350-364 (usmsScraperV2.py 350-364): all meters are scraped, and
\* the electricity values are copied into dynamic_values.  usmsScraperV2 stops
\* here and goes to its sinks.
usms_scrape_all_meters ==
    /\ mpc = "cards" /\ script \in {"usmsScraper", "usmsScraperV2"}
    /\ LET r == scrape_all_meters(cards) IN
          /\ all_meter_data' = r.data
          /\ looked_up' = r.started
          /\ dynamic_values' =
                 IF "electricity" \in DOMAIN r.data
                 THEN [k \in FieldSet(DynamicNames) |->
                          DictGet(r.data["electricity"], k, None)]
                 ELSE EmptyDict
          /\ frame' = r.frame
    /\ mpc' = IF script = "usmsScraperV2" THEN "export" ELSE UsmsNavWaits[1]
    /\ UNCHANGED <<script, cards, hourly_consumption, total_kwh, usms_published,
                   usms_exported>>
    /\ UNCHANGED <<imagineVars, tableVars, startVars, mqttVars, headVars, exportVars>>

\* scraper.py 295: the dynamic values are scraped
usms_scrape_dynamic_values ==
    /\ mpc = "cards" /\ script = "scraper"
    /\ LET r == scrape_dynamic_values(cards) IN
          /\ dynamic_values' = r.data
          /\ looked_up' = r.started
          /\ frame' = r.frame
    /\ mpc' = UsmsNavWaits[1]
    /\ UNCHANGED <<script, cards, all_meter_data, hourly_consumption, total_kwh,
                   usms_published, usms_exported>>
    /\ UNCHANGED <<imagineVars, tableVars, startVars, mqttVars, headVars, exportVars>>

\* the click path to the data table; a wait that times out or an interaction that
\* fails ends the try block in the handlers of usmsScraper.py 497-508 (scraper.py
\* 426-437), which switch back to the default content
usms_navigate ==
    /\ \E k \in 1..Len(UsmsNavWaits), outcome \in {"ok", "TimeoutException", "Exception"} :
          /\ mpc = UsmsNavWaits[k]
          /\ mpc' = IF outcome # "ok" THEN "finished"
                    ELSE IF k < Len(UsmsNavWaits) THEN UsmsNavWaits[k + 1] ELSE "table"
          /\ frame' = IF outcome # "ok" THEN "default" ELSE "frame 0"
    /\ UNCHANGED <<script, cards, all_meter_data, dynamic_values, looked_up,
                   hourly_consumption, total_kwh, usms_published, usms_exported>>
    /\ UNCHANGED <<imagineVars, tableVars, startVars, mqttVars, headVars, exportVars>>

\* usmsScraper.py 427 (scraper.py 362): the table is scraped
usms_scrape_table ==
    /\ mpc = "table"
    /\ \E r \in TableResults :
          /\ hourly_consumption' = r.hourly_data
          /\ total_kwh' = r.total_consumption
    /\ mpc' = "export"
    /\ UNCHANGED <<script, cards, frame, all_meter_data, dynamic_values, looked_up,
                   usms_published, usms_exported>>
    /\ UNCHANGED <<imagineVars, tableVars, startVars, mqttVars, headVars, exportVars>>

\* ExportAttempted with scraper.py exporting whenever it has anything to publish
ExportAttempted_AnyData ==
    IF script = "usmsScraper"
    THEN Truthy(hourly_consumption) \/ Truthy(all_meter_data)
    ELSE IF script = "usmsScraperV2" THEN Truthy(all_meter_data)
    ELSE Truthy(hourly_consumption) \/ Truthy(dynamic_values) \/ total_kwh # None

\* the "if" around the export: usmsScraper.py 438, usmsScraperV2.py 366,
\* scraper.py 373
ExportAttempted ==
    IF script = "usmsScraper"
    THEN Truthy(hourly_consumption) \/ Truthy(all_meter_data)
    ELSE IF script = "usmsScraperV2" THEN Truthy(all_meter_data)
    ELSE Truthy(hourly_consumption)

\* usmsScraper.py 438-453; scraper.py 373-387 exports only with hourly readings and
\* passes no meter data (the default None, falsy like the empty dict);
\* usmsScraperV2.py 366-382 exports with meter data and passes [] and None for the
\* table.  The writer may fail, which is reported.
usms_export ==
    /\ mpc = "export"
    /\ LET attempt == ExportAttempted
           bundle == IF script = "usmsScraperV2"
                     THEN export_usms_data(<<>>, None, dynamic_values, all_meter_data)
                     ELSE export_usms_data(hourly_consumption, total_kwh, dynamic_values,
                              IF script = "usmsScraper" THEN all_meter_data ELSE EmptyDict)
       IN IF attempt
          THEN \E written \in BOOLEAN :
                  usms_exported' = Append(usms_exported,
                      [bundle |-> bundle, written |-> written /\ bundle.writes])
          ELSE UNCHANGED usms_exported
    /\ mpc' = IF script = "usmsScraperV2" THEN "publish_v2" ELSE "publish"
    /\ UNCHANGED <<script, cards, frame, all_meter_data, dynamic_values, looked_up,
                   hourly_consumption, total_kwh, usms_published>>
    /\ UNCHANGED <<imagineVars, tableVars, startVars, mqttVars, headVars, exportVars>>

\* usmsScraper.py 456-473, scraper.py 391-402: the payload before the timestamp
UsmsPayload ==
    LET meters == IF script = "usmsScraper" /\ Truthy(all_meter_data)
                  THEN DictSet(EmptyDict, "meters", all_meter_data) ELSE EmptyDict
        dyn == IF Truthy(dynamic_values) THEN DictUpdate(meters, dynamic_values) ELSE meters
        hourly == IF Truthy(hourly_consumption)
                  THEN DictSet(dyn, "hourly_consumption", hourly_consumption) ELSE dyn
    IN IF total_kwh # None THEN DictSet(hourly, "total_consumption_kwh", total_kwh)
       ELSE hourly

\* a handler of the sink calls for timeouts only
SinkHandler_TimeoutOnly == "TimeoutException"

\* scraper.py 416, usmsScraper.py 487, usmsScraperV2.py 430 (and 379 around the
\* export): except Exception around the call of a sink
SinkHandler == "Exception"

\* a call of publish_usms_json with the given arguments: the function of
\* mqtt_publisher.py 306 takes one parameter, and a call with any other number of
\* arguments raises TypeError before the body runs
CallPublishUsmsJson(args) ==
    IF Len(args) = 1 THEN [raised |-> "", value |-> publish_usms_json(args[1])]
    ELSE [raised |-> "TypeError", value |-> None]

\* an exception of the publish call that the handler around it does not catch
\* goes to the handlers of the enclosing try statement
Escapes(call) == call.raised # "" /\ ~Catches(SinkHandler, call.raised)

\* usmsScraper.py 475-495, scraper.py 404-424: publish when there is a payload,
\* then switch back to the default content
usms_publish ==
    /\ mpc = "publish"
    /\ IF Truthy(UsmsPayload)
       THEN LET payload == DictSet(UsmsPayload, "mqtt_timestamp", BruneiNowIso)
                call == CallPublishUsmsJson(<<payload>>)
            IN usms_published' = Append(usms_published,
                   [payload |-> payload, raised |-> call.raised,
                    escaped |-> Escapes(call), result |-> call.value])
       ELSE UNCHANGED usms_published
    /\ frame' = "default"
    /\ mpc' = "finished"
    /\ UNCHANGED <<script, cards, all_meter_data, dynamic_values, looked_up,
                   hourly_consumption, total_kwh, usms_exported>>
    /\ UNCHANGED <<imagineVars, tableVars, startVars, mqttVars, headVars, exportVars>>

\* usmsScraperV2.py 394: the values of a card that are published
desired_keys_for_mqtt == <<"Remaining Unit", "Remaining Balance", "Last Updated">>

\* usmsScraperV2.py 396-407 (409-420): the payload of one meter, or None when the
\* meter is absent or none of the desired values was read
MeterPayload(name) ==
    IF name \in DOMAIN all_meter_data /\ Truthy(all_meter_data[name])
    THEN LET source_data == all_meter_data[name]
             temp_payload ==
                 [k \in { key \in FieldSet(desired_keys_for_mqtt) :
                              key \in DOMAIN source_data /\ source_data[key] # None }
                    |-> source_data[k]]
         IN IF Truthy(temp_payload)
            THEN DictSet(temp_payload, "mqtt_timestamp", BruneiNowIso)
            ELSE None
    ELSE None

\* usmsScraperV2.py 384-433: one payload per meter, handed over in one call
\* publish_usms_json(electricity_payload, water_payload); an exception of the
\* call is caught at line 430, and one that is not caught there ends the try
\* block in the handlers of lines 438-449
v2_publish ==
    /\ mpc = "publish_v2"
    /\ LET electricity_payload ==
               IF Truthy(all_meter_data) THEN MeterPayload("electricity") ELSE None
           water_payload ==
               IF Truthy(all_meter_data) THEN MeterPayload("water") ELSE None
           data_to_publish_exists == electricity_payload # None \/ water_payload # None
       IN IF data_to_publish_exists
          THEN LET call == CallPublishUsmsJson(<<electricity_payload, water_payload>>)
               IN usms_published' = Append(usms_published,
                      [payloads |-> <<electricity_payload, water_payload>>,
                       raised |-> call.raised, escaped |-> Escapes(call),
                       result |-> call.value])
          ELSE UNCHANGED usms_published
    /\ mpc' = "finished"
    /\ frame' = "default"
    /\ UNCHANGED <<script, cards, all_meter_data, dynamic_values, looked_up,
                   hourly_consumption, total_kwh, usms_exported>>
    /\ UNCHANGED <<imagineVars, tableVars, startVars, mqttVars, headVars, exportVars>>

InitMeters ==
    /\ mpc = "cards"
    /\ script \in {"usmsScraper", "scraper"}
    /\ cards \in CardPages
    /\ frame = "default"
    /\ all_meter_data = EmptyDict
    /\ dynamic_values = EmptyDict
    /\ looked_up = <<>>
    /\ hourly_consumption = <<>>
    /\ total_kwh = None
    /\ usms_published = <<>>
    /\ usms_exported = <<>>
    /\ ImagineIdle
    /\ TableIdle
    /\ StartIdle
    /\ MqttIdle
    /\ HeadlessIdle
    /\ ExportIdle

NextMeters ==
    \/ usms_scrape_all_meters
    \/ usms_scrape_dynamic_values
    \/ usms_navigate
    \/ usms_scrape_table
    \/ usms_export
    \/ usms_publish

SpecMeters == InitMeters /\ [][NextMeters]_vars

\* usmsScraperV2.py after a successful login
InitMetersV2 ==
    /\ mpc = "cards"
    /\ script = "usmsScraperV2"
    /\ cards \in CardPages
    /\ frame = "default"
    /\ all_meter_data = EmptyDict
    /\ dynamic_values = EmptyDict
    /\ looked_up = <<>>
    /\ hourly_consumption = <<>>
    /\ total_kwh = None
    /\ usms_published = <<>>
    /\ usms_exported = <<>>
    /\ ImagineIdle
    /\ TableIdle
    /\ StartIdle
    /\ MqttIdle
    /\ HeadlessIdle
    /\ ExportIdle

NextMetersV2 ==
    \/ usms_scrape_all_meters
    \/ usms_export
    \/ v2_publish

SpecMetersV2 == InitMetersV2 /\ [][NextMetersV2]_vars

-----------------------------------------------------------------------------
(* Claims about the meter-card extractors *)

CardsScraped == mpc # "cards" /\ mpc # "idle"

\* what a record holds for a field: the page's text, or None for a failed lookup
ExpectedField(meter_index, field) ==
    IF cards.faults[<<meter_index, field>>] = "ok" THEN CardText(meter_index, field)
    ELSE None

\* every field of names is in the record with its expected value, and its lookup
\* was started
FieldsIndependent(record, names, meter_index) ==
    \A i \in 1..Len(names) :
        /\ names[i] \in DOMAIN record
        /\ record[names[i]] = ExpectedField(meter_index, names[i])
        /\ \E j \in 1..Len(looked_up) : looked_up[j] = <<meter_index, names[i]>>

\* the part of C7 about scrape_meter_data: each record of scrape_all_meters holds
\* every field, None exactly for the lookups that failed
C7_MeterDataFieldsIndependent ==
    (CardsScraped /\ script = "usmsScraper") =>
        \A m \in Slots :
            MeterKey(m) \in DOMAIN all_meter_data =>
                FieldsIndependent(all_meter_data[MeterKey(m)], FieldNames, m)

\* C7: in scrape_meter_data and in scrape_dynamic_values a field whose lookup
\* times out or raises is None in the returned record, and every other field was
\* looked up and holds its text.
C7_FieldFailureIsLocal ==
    /\ C7_MeterDataFieldsIndependent
    /\ (CardsScraped /\ script = "scraper" /\ cards.my_frame) =>
          FieldsIndependent(dynamic_values, DynamicNames, 0)

ProbeFound(m) == cards.my_frame /\ cards.present[m]

\* C8: the result of scrape_all_meters has a meter's key exactly when the probe of
\* its slot found the card, the electricity record does not depend on the water
\* card, and the spreadsheet bundle and the published payload have a water sheet
\* / a "water" key exactly when the water card was found.
C8_KeyIffCardFound ==
    (CardsScraped /\ script = "usmsScraper") =>
        /\ \A m \in Slots : MeterKey(m) \in DOMAIN all_meter_data <=> ProbeFound(m)
        /\ ProbeFound(0) =>
              /\ FieldsIndependent(all_meter_data["electricity"], FieldNames, 0)
              /\ all_meter_data["electricity"]["Meter Type"] = "Electricity"
        /\ \A i \in 1..Len(usms_exported) :
              /\ usms_exported[i].bundle.writes
              /\ "Water Meter" \in DOMAIN usms_exported[i].bundle.sheets_config
                    <=> ProbeFound(1)
        /\ \A i \in 1..Len(usms_published) :
              IF "meters" \in DOMAIN usms_published[i].payload
              THEN "water" \in DOMAIN usms_published[i].payload["meters"] <=> ProbeFound(1)
              ELSE ~ProbeFound(1)

\* C8 witness: a finished run that found the electricity card and no water card
\* handed both sinks a bundle without water.
C8_Witness ==
    /\ mpc = "finished" /\ script = "usmsScraper"
    /\ ProbeFound(0) /\ ~ProbeFound(1)
    /\ DOMAIN all_meter_data = {"electricity"}
    /\ Len(usms_exported) = 1
    /\ Len(usms_published) = 1
    /\ DOMAIN usms_published[1].payload["meters"] = {"electricity"}

-----------------------------------------------------------------------------
(* A script run from its first line: scraper.py 214-245 and 450-457,          *)
(* usmsScraper.py 275-305 and 521-528, usmsScraperV2.py 276-306 and 461-468,  *)
(* imagineScraper.main 188-207 and 325-337                                   *)

T_user == <<"u","s","e","r">>
T_secret == <<"s","e","c","r","e","t">>

\* a JSON object with any of the two keys, each holding "" or a text
CredEntries(k1, k2) ==
    UNION { [K -> {<<>>}] : K \in SUBSET {k1, k2} }
        \cup { DictSet(DictSet(EmptyDict, k1, T_user), k2, v) : v \in {<<>>, T_secret} }
        \cup { DictSet(DictSet(EmptyDict, k1, <<>>), k2, T_secret) }
        \cup { DictSet(EmptyDict, k1, T_user), DictSet(EmptyDict, k2, T_secret) }

CompleteEntry(k1, k2) == DictSet(DictSet(EmptyDict, k1, T_user), k2, T_secret)

\* credentials.json: absent, not JSON, or a JSON object
CredFiles ==
    { [kind |-> "missing"], [kind |-> "invalid"] }
    \cup { [kind |-> "object", content |-> c] :
             c \in { DictSet(EmptyDict, "USMS", e) : e \in CredEntries("username", "password") }
               \cup { DictSet(EmptyDict, "Imagine", e) :
                         e \in CredEntries("serviceNumber", "accountNumber") }
               \cup { DictSet(DictSet(EmptyDict, "USMS", CompleteEntry("username", "password")),
                              "Imagine", CompleteEntry("serviceNumber", "accountNumber")) }
               \cup CredEntries("username", "password") }

\* scraper.load_credentials(file_path=None, service): the pair it returns and the
\* message it prints.  usmsScraper.py and usmsScraperV2.py hold the same function;
\* imagineScraper.load_credentials is the same with service "Imagine" as default.
\* A missing field is read with .get and comes back as None without a message.
load_credentials(file, service) ==
    IF file.kind = "missing"
    THEN [ret |-> <<None, None>>, printed |-> "Credentials file not found"]
    ELSE IF file.kind = "invalid"
    THEN [ret |-> <<None, None>>, printed |-> "Could not decode JSON"]
    ELSE IF service \notin DOMAIN file.content
    THEN [ret |-> <<None, None>>, printed |-> "Service not found"]
    ELSE LET service_creds == file.content[service] IN
         IF service = "USMS"
         THEN [ret |-> <<DictGet(service_creds, "username", None),
                         DictGet(service_creds, "password", None)>>,
               printed |-> ""]
         ELSE IF service = "Imagine"
         THEN [ret |-> <<DictGet(service_creds, "serviceNumber", None),
                         DictGet(service_creds, "accountNumber", None)>>,
               printed |-> ""]
         ELSE [ret |-> <<None, None>>, printed |-> "Unknown service"]

\* scraper_headless.load_credentials(file_path): creds["username"], creds["password"]
\* raise KeyError on a missing key, which the third handler reports
headless_load_credentials(file) ==
    IF file.kind = "missing"
    THEN [ret |-> <<None, None>>, printed |-> "Credentials file not found"]
    ELSE IF file.kind = "invalid"
    THEN [ret |-> <<None, None>>, printed |-> "Could not decode JSON"]
    ELSE IF "username" \notin DOMAIN file.content \/ "password" \notin DOMAIN file.content
    THEN [ret |-> <<None, None>>, printed |-> "'username' or 'password' key not found"]
    ELSE [ret |-> <<file.content["username"], file.content["password"]>>, printed |-> ""]

Scripts == {"imagineScraper", "scraper", "usmsScraper", "usmsScraperV2"}

\* the default of the service parameter in each script
ServiceOf(s) == IF s = "imagineScraper" THEN "Imagine" ELSE "USMS"

LoginUrl(s) ==
    IF s = "imagineScraper" THEN "https://app.imagine.com.bn/online_topup/usage.php"
    ELSE "https://www.usms.com.bn/SmartMeter/resLogin"

\* CredentialsUsable that looks at the first value only
CredentialsUsable_FirstOnly(pair) == TruthyText(pair[1])

\* scraper.py 220, imagineScraper.py 192: "if not username or not password" exits
CredentialsUsable(pair) == TruthyText(pair[1]) /\ TruthyText(pair[2])

\* scraper.py 218-222, imagineScraper.py 190-194, scraper_headless.py 86-90:
\* the credentials are loaded, and the script ends when one of them is falsy
run_load_credentials ==
    /\ spc = "load_credentials"
    /\ LET r == IF run_script = "scraper_headless"
                THEN headless_load_credentials(cred_file)
                ELSE load_credentials(cred_file, ServiceOf(run_script))
       IN /\ credentials' = r.ret
          /\ console' = IF r.printed = "" THEN console ELSE Append(console, r.printed)
          /\ spc' = IF CredentialsUsable(r.ret) THEN "setup_driver" ELSE "exited"
    /\ UNCHANGED <<run_script, cred_file, requests, current_url>>
    /\ UNCHANGED <<imagineVars, tableVars, meterVars, mqttVars, headVars, exportVars>>

\* scraper.py 230-233, imagineScraper.py 197-200: setup_driver() gives a driver,
\* or None after a failure it reported, and then the script ends
run_setup_driver ==
    /\ spc = "setup_driver" /\ run_script \in Scripts
    /\ \E driver \in {"driver", "None"} :
          /\ browser_open' = (driver = "driver")
          /\ spc' = IF driver = "driver" THEN "set_window_size" ELSE "exited"
    /\ UNCHANGED <<ipc, page, usage_data, mqtt_payload, parse_error, published, exported>>
    /\ UNCHANGED <<tableVars, meterVars, mqttVars, headVars, exportVars>>
    /\ UNCHANGED <<run_script, cred_file, credentials, console, requests,
                   current_url>>

\* scraper.py 235, imagineScraper.py 202: driver.set_window_size, before the try
\* statement: an exception it raises ends the script with a traceback
run_set_window_size ==
    /\ spc = "set_window_size"
    /\ \E outcome \in {"ok", "WebDriverException"} :
          spc' = IF outcome = "ok" THEN "get" ELSE "crashed"
    /\ UNCHANGED <<run_script, cred_file, credentials, console, requests,
                   current_url>>
    /\ UNCHANGED <<imagineVars, tableVars, meterVars, mqttVars, headVars, exportVars>>

\* scraper.py 248-279: the waits of the login form
\* scraper.py 215: login_url
T_login_url ==
    <<"h","t","t","p","s",":","/","/","w","w","w",".","u","s","m","s",".","c",
      "o","m",".","b","n","/","S","m","a","r","t","M","e","t","e","r","/","r",
      "e","s","L","o","g","i","n">>

\* imagineScraper.py: the usage page's address
T_usage_url ==
    <<"h","t","t","p","s",":","/","/","a","p","p",".","i","m","a","g","i","n",
      "e",".","c","o","m",".","b","n","/","o","n","l","i","n","e","_","t","o",
      "p","u","p","/","u","s","a","g","e",".","p","h","p">>

T_SmartMeter == SubSeq(T_login_url, 1, Len(T_login_url) - 8)

T_reslogin == <<"r","e","s","l","o","g","i","n">>

\* the addresses the browser can show once url_changes(login_url) holds: the
\* account page, and the login page under another address
AfterLoginUrls ==
    { T_SmartMeter \o <<"H","o","m","e">>,
      T_login_url \o <<"?","e","r","r","=","1">>,
      T_SmartMeter \o <<"R","e","s","L","o","g","i","n",".","a","s","p","x">>,
      T_SmartMeter \o <<"R","E","S","L","O","G","I","N">> }

LoginWaits ==
    <<"ASPxRoundPanel1_txtUsername_I", "ASPxRoundPanel1_txtPassword_I",
      "ASPxRoundPanel1_btnLogin_CD", "url_changes">>

\* the usage pages a whole run is followed on
RunPages ==
    { p \in Pages : /\ p.cols = <<>>
                    /\ p.expiry \in {<<>>, NoSuchElement}
                    /\ \A i \in 1..Len(p.bars) :
                          p.bars[i] \in {T_139GB_of_700_GB_Used, Stale} \cup TopupUsage }

\* the account pages a whole run is followed on: no field lookup fails
RunCardPages == { p \in CardPages : \A l \in Lookups : p.faults[l] = "ok" }

\* scraper.py 238, imagineScraper.py 205: driver.get, before the try statement.
\* In imagineScraper the try block of main() starts on the page that came back.
run_get ==
    /\ spc = "get"
    /\ requests' = Append(requests, LoginUrl(run_script))
    /\ \E outcome \in {"ok", "WebDriverException"} :
          IF outcome # "ok"
          THEN /\ spc' = "crashed"
               /\ UNCHANGED <<ipc, page, current_url>>
          ELSE IF run_script = "imagineScraper"
          THEN /\ spc' = "pipeline"
               /\ ipc' = NavWaits[1]
               /\ page' \in RunPages
               /\ current_url' = T_usage_url
          ELSE /\ spc' = LoginWaits[1]
               /\ current_url' = T_login_url
               /\ UNCHANGED <<ipc, page>>
    /\ UNCHANGED <<usage_data, mqtt_payload, parse_error, published, exported, browser_open>>
    /\ UNCHANGED <<run_script, cred_file, credentials, console>>
    /\ UNCHANGED <<tableVars, meterVars, mqttVars, headVars, exportVars>>

\* run_login that starts the form again after a wait that failed
run_login_Retry ==
    /\ run_script # "imagineScraper"
    /\ \E k \in 1..Len(LoginWaits), outcome \in {"ok", "TimeoutException", "Exception"} :
          /\ spc = LoginWaits[k]
          /\ spc' = IF outcome # "ok" THEN LoginWaits[1]
                    ELSE IF k < Len(LoginWaits) THEN LoginWaits[k + 1] ELSE "login_check"
          /\ IF outcome = "ok" /\ LoginWaits[k] = "url_changes"
             THEN current_url' \in AfterLoginUrls
             ELSE current_url' = current_url
    /\ UNCHANGED <<run_script, cred_file, credentials, console, requests>>
    /\ UNCHANGED <<imagineVars, tableVars, meterVars, mqttVars, headVars, exportVars>>

\* scraper.py 246-279: the login form; a wait that times out or an interaction
\* that fails is caught by the handlers of lines 450-453.  The last wait ends
\* when the browser's address is no longer login_url.
run_login ==
    /\ run_script # "imagineScraper"
    /\ \E k \in 1..Len(LoginWaits), outcome \in {"ok", "TimeoutException", "Exception"} :
          /\ spc = LoginWaits[k]
          /\ spc' = IF outcome # "ok" THEN "finally"
                    ELSE IF k < Len(LoginWaits) THEN LoginWaits[k + 1] ELSE "login_check"
          /\ IF outcome = "ok" /\ LoginWaits[k] = "url_changes"
             THEN current_url' \in AfterLoginUrls
             ELSE current_url' = current_url
    /\ UNCHANGED <<run_script, cred_file, credentials, console, requests>>
    /\ UNCHANGED <<imagineVars, tableVars, meterVars, mqttVars, headVars, exportVars>>

\* LoggedIn comparing the address as it is written
LoggedIn_CaseSensitive(url) == ~PyIn(T_reslogin, url)

\* scraper.py 284: "reslogin" not in current_url.lower()
LoggedIn(url) == ~PyIn(T_reslogin, PyLower(url))

\* scraper.py 281-284 and 440-448: after a login the work on the account page
\* starts; any other page is reported
run_login_check ==
    /\ spc = "login_check"
    /\ IF LoggedIn(current_url)
          THEN /\ spc' = "pipeline"
               /\ mpc' = "cards"
               /\ script' = run_script
               /\ cards' \in RunCardPages
          ELSE /\ spc' = "finally"
               /\ UNCHANGED <<mpc, script, cards>>
    /\ UNCHANGED <<frame, all_meter_data, dynamic_values, looked_up, hourly_consumption,
                   total_kwh, usms_published, usms_exported>>
    /\ UNCHANGED <<run_script, cred_file, credentials, console, requests,
                   current_url>>
    /\ UNCHANGED <<imagineVars, tableVars, mqttVars, headVars, exportVars>>

\* scraper.py 455-457: the finally clause of the script closes the browser
run_finally ==
    /\ \/ spc = "finally"
       \/ spc = "pipeline" /\ run_script # "imagineScraper" /\ mpc = "finished"
    /\ browser_open' = FALSE
    /\ spc' = "done"
    /\ UNCHANGED <<ipc, page, usage_data, mqtt_payload, parse_error, published, exported>>
    /\ UNCHANGED <<run_script, cred_file, credentials, console, requests,
                   current_url>>
    /\ UNCHANGED <<tableVars, meterVars, mqttVars, headVars, exportVars>>

\* a script started from its first line
InitRun ==
    /\ spc = "load_credentials"
    /\ run_script \in Scripts
    /\ cred_file \in CredFiles
    /\ credentials = <<None, None>>
    /\ console = <<>>
    /\ requests = <<>>
    /\ current_url = <<>>
    /\ ImagineIdle
    /\ TableIdle
    /\ MetersIdle
    /\ MqttIdle
    /\ HeadlessIdle
    /\ ExportIdle

NextStart ==
    \/ run_load_credentials
    \/ run_setup_driver
    \/ run_set_window_size
    \/ run_get
    \/ run_login
    \/ run_login_check
    \/ run_finally

NextRun == NextStart \/ NextImagine \/ NextMeters \/ v2_publish

SpecRun == InitRun /\ [][NextRun]_vars

\* Every step of a run ends within a fixed time: the waits are WebDriverWait with
\* 10, 15 or 20 seconds and the sleeps are fixed, so a run that can take a step
\* takes it.
SpecRunFair == SpecRun /\ WF_vars(NextRun)

\* load_credentials on its own, the loader of scraper_headless.py included
InitCreds ==
    /\ spc = "load_credentials"
    /\ run_script \in Scripts \cup {"scraper_headless"}
    /\ cred_file \in CredFiles
    /\ credentials = <<None, None>>
    /\ console = <<>>
    /\ requests = <<>>
    /\ current_url = <<>>
    /\ ImagineIdle
    /\ TableIdle
    /\ MetersIdle
    /\ MqttIdle
    /\ HeadlessIdle
    /\ ExportIdle

SpecCreds == InitCreds /\ [][run_load_credentials]_vars

-----------------------------------------------------------------------------
(* Claims about a run from its first line *)

\* the script has ended: exit() or return before the try statement, a traceback,
\* or the end of the script after its finally clause
RunEnded ==
    \/ spc \in {"exited", "crashed", "done"}
    \/ spc = "pipeline" /\ run_script = "imagineScraper" /\ ipc = "done"

\* C11: once a browser session was created, every way the run ends has released
\* it with driver.quit(): normal completion, a failed login, a timeout, and an
\* exception at any step after the creation, window sizing and the first page
\* load included.
C11_SessionReleasedOnEveryExit ==
    RunEnded => ~browser_open

\* C12: with a credential file that is missing, is not JSON, lacks the service
\* entry, or lacks a credential field or holds an empty one, the run ends before
\* the browser session is created: no page is requested, no extraction runs and
\* no sink is invoked.
UnusableCredFile(file, s) ==
    \/ file.kind \in {"missing", "invalid"}
    \/ /\ file.kind = "object"
       /\ \/ ServiceOf(s) \notin DOMAIN file.content
          \/ LET entry == file.content[ServiceOf(s)]
                 fields == IF ServiceOf(s) = "USMS" THEN {"username", "password"}
                           ELSE {"serviceNumber", "accountNumber"}
             IN \E k \in fields : k \notin DOMAIN entry \/ entry[k] = <<>>

C12_BadCredentialsEndBeforeBrowser ==
    UnusableCredFile(cred_file, run_script) =>
        /\ spc \in {"load_credentials", "exited"}
        /\ ~browser_open
        /\ requests = <<>>
        /\ ipc = "idle" /\ mpc = "idle" /\ tpc = "idle"
        /\ usage_data = EmptyDict /\ looked_up = <<>> /\ all_meter_data = EmptyDict
        /\ published = <<>> /\ exported = <<>>
        /\ usms_published = <<>> /\ usms_exported = <<>>

\* C12 witness: a USMS script that found a user name and an empty password in the
\* file has ended without a browser.
C12_Witness ==
    /\ spc = "exited" /\ run_script = "scraper"
    /\ cred_file.kind = "object"
    /\ "USMS" \in DOMAIN cred_file.content
    /\ credentials = <<T_user, <<>> >>
    /\ ~browser_open /\ requests = <<>>

\* C20: load_credentials reports a missing file, undecodable JSON and a missing
\* key as three distinct error conditions that its caller can tell apart: what the
\* caller receives after one of them is never what it receives after another.
ErrorCondition(file, s) ==
    IF file.kind = "missing" THEN "FileNotFound"
    ELSE IF file.kind = "invalid" THEN "DecodeError"
    ELSE IF s = "scraper_headless"
    THEN IF {"username", "password"} \subseteq DOMAIN file.content THEN "none"
         ELSE "MissingKey"
    ELSE IF ServiceOf(s) \notin DOMAIN file.content THEN "MissingKey"
    ELSE LET fields == IF ServiceOf(s) = "USMS" THEN {"username", "password"}
                       ELSE {"serviceNumber", "accountNumber"}
         IN IF fields \subseteq DOMAIN file.content[ServiceOf(s)] THEN "none"
            ELSE "MissingKey"

Returned(file, s) ==
    IF s = "scraper_headless" THEN headless_load_credentials(file).ret
    ELSE load_credentials(file, ServiceOf(s)).ret

C20_CallerTellsErrorsApart ==
    (spc # "load_credentials" /\ ErrorCondition(cred_file, run_script) # "none") =>
        \A f \in CredFiles :
            (ErrorCondition(f, run_script) # "none" /\ Returned(f, run_script) = credentials)
                => ErrorCondition(f, run_script) = ErrorCondition(cred_file, run_script)

-----------------------------------------------------------------------------
(* mqtt_publisher.py: load_mqtt_config, test_mqtt_connection and the publish   *)
(* functions                                                                  *)

\* required_keys without the topic
required_keys_NoTopic == <<"broker", "port", "username", "password">>

\* mqtt_publisher.py 248
required_keys == <<"broker", "port", "username", "password", "base_topic">>

\* the value credentials.json holds under a key of the "mqtt" object
MqttValue(key) ==
    IF key = "broker" THEN "homeassistant.local"
    ELSE IF key = "port" THEN "1883"
    ELSE IF key = "base_topic" THEN "homeassistant"
    ELSE key

\* credentials.json as load_mqtt_config finds it: absent, not JSON, or an object
\* without "mqtt" or with an "mqtt" object that holds any of the required keys
MqttFiles ==
    { [kind |-> "missing"], [kind |-> "invalid"], [kind |-> "object", content |-> EmptyDict] }
    \cup { [kind |-> "object",
            content |-> DictSet(EmptyDict, "mqtt", [k \in K |-> MqttValue(k)])] :
              K \in SUBSET FieldSet(required_keys) }

NoConfig(message) == [is_none |-> TRUE, value |-> EmptyDict, printed |-> message]

\* mqtt_publisher.load_mqtt_config(): the "mqtt" object, or None with a message
load_mqtt_config(file) ==
    IF file.kind = "missing" THEN NoConfig("credentials.json not found")
    ELSE IF file.kind = "invalid" THEN NoConfig("Error decoding JSON from credentials.json")
    ELSE LET config == DictGet(file.content, "mqtt", EmptyDict) IN
         IF ~Truthy(config)
         THEN NoConfig("MQTT configuration not found in credentials.json")
         ELSE IF \E i \in 1..Len(required_keys) : required_keys[i] \notin DOMAIN config
         THEN NoConfig("MQTT config missing required key")
         ELSE [is_none |-> FALSE, value |-> config, printed |-> ""]

\* how the broker answers: it cannot be reached, it refuses the session, it
\* accepts but answers nothing in time, or it acknowledges in time
Brokers == {"unreachable", "rejects", "silent", "acks"}

\* mqtt_publisher.py 269-272: the configuration is loaded; without one the test
\* returns False
mqtt_load_config ==
    /\ qpc = "load_mqtt_config" /\ mqtt_call.name = "test_mqtt_connection"
    /\ LET config == load_mqtt_config(mqtt_file) IN
          /\ mqtt_config' = [is_none |-> config.is_none, value |-> config.value]
          /\ IF config.is_none
             THEN /\ mqtt_result' = "False"
                  /\ qpc' = "returned"
             ELSE /\ mqtt_result' = mqtt_result
                  /\ qpc' = "Client"
    /\ UNCHANGED <<mqtt_call, mqtt_file, client, broker, wire, connection_successful>>
    /\ UNCHANGED <<imagineVars, tableVars, meterVars, startVars, headVars, exportVars>>

\* mqtt_publisher.py 274-292: the client is created and given its callbacks
mqtt_create_client ==
    /\ qpc = "Client"
    /\ client' = "created"
    /\ connection_successful' = FALSE
    /\ qpc' = "connect"
    /\ UNCHANGED <<mqtt_call, mqtt_file, mqtt_config, broker, wire, mqtt_result>>
    /\ UNCHANGED <<imagineVars, tableVars, meterVars, startVars, headVars, exportVars>>

\* mqtt_publisher.py 294-302: client.connect; an exception of the attempt is
\* caught and the test returns False, otherwise the network loop runs for 2 s
mqtt_connect ==
    /\ qpc = "connect"
    /\ wire' = Append(wire, [op |-> "connect", host |-> mqtt_config.value["broker"],
                             port |-> mqtt_config.value["port"], keepalive |-> 60])
    /\ IF broker = "unreachable"
       THEN /\ mqtt_result' = "False"
            /\ qpc' = "returned"
            /\ client' = client
       ELSE /\ mqtt_result' = mqtt_result
            /\ qpc' = "loop"
            /\ client' = "connecting"
    /\ UNCHANGED <<mqtt_call, mqtt_file, mqtt_config, broker, connection_successful>>
    /\ UNCHANGED <<imagineVars, tableVars, meterVars, startVars, headVars, exportVars>>

\* on_connect that sets the flag whatever the reason code is
mqtt_on_connect_AnyCode ==
    /\ qpc = "loop" /\ client = "connecting"
    /\ broker \in {"acks", "rejects"}
    /\ connection_successful' = TRUE
    /\ client' = "disconnected"
    /\ UNCHANGED <<qpc, mqtt_call, mqtt_file, mqtt_config, broker, wire, mqtt_result>>
    /\ UNCHANGED <<imagineVars, tableVars, meterVars, startVars, headVars, exportVars>>

\* mqtt_publisher.py 279-286: on_connect, when the broker answers while the loop
\* runs; the client disconnects after the check
mqtt_on_connect ==
    /\ qpc = "loop" /\ client = "connecting"
    /\ broker \in {"acks", "rejects"}
    /\ connection_successful' = (broker = "acks")
    /\ client' = "disconnected"
    /\ UNCHANGED <<qpc, mqtt_call, mqtt_file, mqtt_config, broker, wire, mqtt_result>>
    /\ UNCHANGED <<imagineVars, tableVars, meterVars, startVars, headVars, exportVars>>

\* mqtt_publisher.py 299-304: the loop is stopped and the flag returned
mqtt_return ==
    /\ qpc = "loop"
    /\ mqtt_result' = IF connection_successful THEN "True" ELSE "False"
    /\ qpc' = "returned"
    /\ UNCHANGED <<mqtt_call, mqtt_file, mqtt_config, client, broker, wire,
                   connection_successful>>
    /\ UNCHANGED <<imagineVars, tableVars, meterVars, startVars, headVars, exportVars>>

\* the payloads a scraper hands to a publish function
PublishCalls ==
    { [name |-> "publish_imagine_json",
       arg |-> DictSet(DictSet(DictSet(EmptyDict, "base_plan_used_gb", u),
                               "base_plan_total_gb", 700),
                       "mqtt_timestamp", BruneiNowIso)] : u \in {0, 139} }
    \cup
    { [name |-> "publish_usms_json",
       arg |-> DictSet(DictSet(EmptyDict, "total_consumption_kwh", t),
                       "mqtt_timestamp", BruneiNowIso)] :
          t \in { <<"1","8",".","2","4","0">>, <<"0">> } }

\* mqtt_publisher.py 306-337 called from scraper.py 412 / imagineScraper.py 298:
\* the function runs to its end, nothing is sent, and its value goes back to the
\* scraper's "if"
mqtt_publish ==
    /\ qpc = "publish"
    /\ LET value == IF mqtt_call.name = "publish_usms_json"
                    THEN publish_usms_json(mqtt_call.arg)
                    ELSE publish_imagine_json(mqtt_call.arg)
       IN mqtt_result' = IF value = None THEN "None" ELSE "True"
    /\ qpc' = "returned"
    /\ UNCHANGED <<mqtt_call, mqtt_file, mqtt_config, client, broker, wire,
                   connection_successful>>
    /\ UNCHANGED <<imagineVars, tableVars, meterVars, startVars, headVars, exportVars>>

\* one call into mqtt_publisher
InitMqtt ==
    /\ mqtt_call \in { [name |-> "test_mqtt_connection"] } \cup PublishCalls
    /\ qpc = IF mqtt_call.name = "test_mqtt_connection" THEN "load_mqtt_config"
             ELSE "publish"
    /\ mqtt_file \in MqttFiles
    /\ broker \in Brokers
    /\ mqtt_config = [is_none |-> TRUE, value |-> EmptyDict]
    /\ client = "none"
    /\ wire = <<>>
    /\ connection_successful = FALSE
    /\ mqtt_result = "not returned"
    /\ ImagineIdle
    /\ TableIdle
    /\ MetersIdle
    /\ StartIdle
    /\ HeadlessIdle
    /\ ExportIdle

NextMqtt ==
    \/ mqtt_load_config
    \/ mqtt_create_client
    \/ mqtt_connect
    \/ mqtt_on_connect
    \/ mqtt_return
    \/ mqtt_publish

SpecMqtt == InitMqtt /\ [][NextMqtt]_vars

(* Claims about mqtt_publisher *)

\* C13: when the config file has no "mqtt" key, or the "mqtt" object lacks one of
\* broker, port, username, password, base_topic, load_mqtt_config returns no
\* configuration and no connection is attempted: test_mqtt_connection returns
\* failure without creating a client or calling connect.
IncompleteMqttFile(file) ==
    /\ file.kind = "object"
    /\ \/ "mqtt" \notin DOMAIN file.content
       \/ \E k \in {"broker", "port", "username", "password", "base_topic"} :
             k \notin DOMAIN file.content["mqtt"]

C13_NoConfigNoConnection ==
    (mqtt_call.name = "test_mqtt_connection" /\ IncompleteMqttFile(mqtt_file)) =>
        /\ mqtt_config.is_none
        /\ client = "none"
        /\ wire = <<>>
        /\ qpc \in {"load_mqtt_config", "returned"}
        /\ qpc = "returned" => mqtt_result = "False"

\* C13 witness: the test has returned failure for a file whose "mqtt" object
\* lacks base_topic only, with a broker that would have answered.
C13_Witness ==
    /\ qpc = "returned" /\ mqtt_call.name = "test_mqtt_connection"
    /\ mqtt_file.kind = "object" /\ "mqtt" \in DOMAIN mqtt_file.content
    /\ DOMAIN mqtt_file.content["mqtt"] = {"broker", "port", "username", "password"}
    /\ broker = "acks"
    /\ mqtt_result = "False" /\ client = "none" /\ wire = <<>>

\* C17: a publish call reports success to the calling scraper exactly when the
\* broker's delivery acknowledgment (qos=1) arrives within the bounded wait; when
\* none arrives it reports failure, and the message is not published again.
PublishesOnWire == { i \in 1..Len(wire) : wire[i].op = "publish" }

C17_SuccessIffAcknowledged ==
    (qpc = "returned" /\ mqtt_call.name \in {"publish_usms_json", "publish_imagine_json"}) =>
        /\ (mqtt_result = "True") <=> (broker = "acks")
        /\ Cardinality(PublishesOnWire) <= 1

-----------------------------------------------------------------------------
(* The pipelines that feed the sinks: imagineScraper.main, scraper.py,         *)
(* usmsScraper.py and usmsScraperV2.py after the login                        *)

InitSinks == InitImagine \/ InitMeters \/ InitMetersV2

NextSinks == NextImagine \/ NextMeters \/ v2_publish

SpecSinks == InitSinks /\ [][NextSinks]_vars

(* Claims about the sinks *)

\* the export the script is due once it reaches its sinks
ExportDue ==
    IF script = "scraper" THEN Truthy(hourly_consumption)
    ELSE IF script = "usmsScraper" THEN Truthy(hourly_consumption) \/ Truthy(all_meter_data)
    ELSE Truthy(all_meter_data)

\* the publish the script is due once it reaches its sinks
PublishDue ==
    IF script = "usmsScraperV2"
    THEN Truthy(all_meter_data)
            /\ (MeterPayload("electricity") # None \/ MeterPayload("water") # None)
    ELSE Truthy(UsmsPayload)

PublishFailed(call) == call.result = None

\* C14: a failure of one sink never prevents the other sink from being attempted.
\* When the publish raised or reported failure, the export of the same run is
\* (or was) attempted; when the export gave no path, the publish is (or was)
\* attempted; and no failure of a sink reaches the handlers of the pipeline.
C14_SinksFailIndependently ==
    /\ ipc \in {"finally", "done"} =>
          /\ (Len(published) = 1 /\ PublishFailed(published[1])) => Len(exported) = 1
          /\ ( /\ Len(exported) = 1 /\ ~exported[1].written
               /\ {"base_plan_used_gb", "base_plan_total_gb"} \subseteq DOMAIN mqtt_payload )
                => Len(published) = 1
    /\ mpc = "finished" =>
          /\ \A i \in 1..Len(usms_published) : ~usms_published[i].escaped
          /\ (Len(usms_published) = 1 /\ PublishFailed(usms_published[1]) /\ ExportDue)
                => Len(usms_exported) = 1
          /\ (Len(usms_exported) = 1 /\ ~usms_exported[1].written /\ PublishDue)
                => Len(usms_published) = 1

\* C14 witness: usmsScraperV2 has finished after an export that gave no path and
\* a publish call that raised TypeError, which the handler around the call caught.
C14_Witness ==
    /\ mpc = "finished" /\ script = "usmsScraperV2"
    /\ Len(usms_exported) = 1 /\ ~usms_exported[1].written
    /\ Len(usms_published) = 1
    /\ usms_published[1].raised = "TypeError" /\ ~usms_published[1].escaped

\* C15: when a navigation wait times out (or the table root cannot be reached)
\* after meter-card values were gathered, the USMS run still attempts to hand the
\* gathered values to a sink before it ends.
C15_PartialDataStillExported ==
    (mpc = "finished" /\ (Truthy(all_meter_data) \/ Truthy(dynamic_values))) =>
        (usms_exported # <<>> \/ usms_published # <<>>)

\* C16: every JSON object handed to publish_usms_json or publish_imagine_json
\* carries mqtt_timestamp, an ISO-8601 string at the fixed offset UTC+8; no publish
\* function is called with a payload that lacks it.
HasBruneiTimestamp(payload) ==
    /\ "mqtt_timestamp" \in DOMAIN payload
    /\ payload["mqtt_timestamp"].format = "ISO-8601"
    /\ payload["mqtt_timestamp"].utc_offset_hours = 8

C16_PublishedPayloadsTimestamped ==
    /\ \A i \in 1..Len(published) : HasBruneiTimestamp(published[i].payload)
    /\ \A i \in 1..Len(usms_published) :
          IF script = "usmsScraperV2"
          THEN \A j \in 1..Len(usms_published[i].payloads) :
                  usms_published[i].payloads[j] # None
                      => HasBruneiTimestamp(usms_published[i].payloads[j])
          ELSE HasBruneiTimestamp(usms_published[i].payload)

\* C16 witness: scraper.py has handed publish_usms_json a payload with the
\* dynamic values and the timestamp.
C16_Witness ==
    /\ script = "scraper" /\ Len(usms_published) = 1
    /\ "Remaining Unit" \in DOMAIN usms_published[1].payload
    /\ "mqtt_timestamp" \in DOMAIN usms_published[1].payload

\* C18: in every record handed to a sink, each parsed numeric field comes with
\* the raw source string it was parsed from under a "_raw" key:
\* base_plan_used_gb and base_plan_total_gb with base_plan_usage_raw.
C18_RawStringBesideParsedValue ==
    \A i \in 1..Len(published) :
        "base_plan_used_gb" \in DOMAIN published[i].payload =>
            /\ "base_plan_usage_raw" \in DOMAIN published[i].payload
            /\ published[i].payload["base_plan_usage_raw"] = usage_data["Base Plan Usage"]

\* C19: when a well-formed Topup usage string and a Topup expiry were scraped,
\* the published usage record holds topup_used_gb, topup_total_gb and
\* topup_expiry_date next to the base-plan fields.
T_5GB_of_10_GB_Used ==
    <<"5","G","B"," ","o","f"," ","1","0"," ","G","B"," ","U","s","e","d">>

C19_TopupFieldsPublished ==
    ( /\ published # <<>>
      /\ "Topup Usage" \in DOMAIN usage_data
      /\ usage_data["Topup Usage"] = T_5GB_of_10_GB_Used
      /\ "Topup Expiry" \in DOMAIN usage_data ) =>
        \A i \in 1..Len(published) :
            {"base_plan_used_gb", "base_plan_total_gb", "topup_used_gb", "topup_total_gb",
             "topup_expiry_date"} \subseteq DOMAIN published[i].payload

-----------------------------------------------------------------------------
(* scrape_data_from_table of usmsScraperV2.py 52-103: placeholder readings     *)

T_Hour == <<"H","o","u","r"," ">>
T_Zero == <<"0",".","0","0","0">>

\* V2RowReading numbering the readings instead of the rows
V2RowReading_CountsReadings(acc, cols, i) ==
    IF Len(cols) = 2
    THEN Append(acc, [hour |-> T_Hour \o Render(Len(acc) + 1), consumption_kWh |-> T_Zero])
    ELSE acc

\* lines 74-78: a row of two cells at 0-based position i gives "Hour {i+1}" and
\* "0.000"; the cells' texts are not read
V2RowReading(acc, cols, i) ==
    IF Len(cols) = 2
    THEN Append(acc, [hour |-> T_Hour \o Render(i + 1), consumption_kWh |-> T_Zero])
    ELSE acc

\* lines 72-81: the loop over enumerate(data_rows); the row whose cells cannot be
\* listed raises out of the loop
RECURSIVE V2Rows(_, _, _)
V2Rows(d, i, acc) ==
    IF i >= Len(d.rows) THEN [hourly_data |-> acc, exc |-> ""]
    ELSE IF d.stale_row = i + 1
    THEN [hourly_data |-> acc, exc |-> "StaleElementReferenceException"]
    ELSE V2Rows(d, i + 1, V2RowReading(acc, d.rows[i + 1], i))

\* lines 90-96: the footer row of two cells gives "0.000"
V2FooterTotal(cols) == IF Len(cols) = 2 THEN T_Zero ELSE None

\* line 100: except Exception
V2TableHandler == "Exception"

\* lines 52-103: what one call returns on the table view d, and the exception
\* that leaves it
v2_scrape_data_from_table_result(d) ==
    LET rows == IF d.root THEN V2Rows(d, 0, <<>>)
                ELSE [hourly_data |-> <<>>, exc |-> "TimeoutException"]
        exc == IF rows.exc # "" THEN rows.exc
               ELSE IF ~d.footer_table THEN "TimeoutException"
               ELSE IF ~d.footer_row THEN "NoSuchElementException"
               ELSE ""
    IN [hourly_data |-> rows.hourly_data,
        total_consumption |-> IF exc = "" THEN V2FooterTotal(d.footer_cells) ELSE None,
        escaped |-> exc # "" /\ ~Catches(V2TableHandler, exc)]

\* one call of usmsScraperV2.scrape_data_from_table
v2_scrape_data_from_table ==
    /\ tpc = "v2_call"
    /\ LET r == v2_scrape_data_from_table_result(dom)
       IN /\ hourly_data' = r.hourly_data
          /\ total_consumption' = r.total_consumption
          /\ raised' = r.escaped
          /\ returns' = IF r.escaped THEN returns
                        ELSE Append(returns, [hourly_data |-> r.hourly_data,
                                              total_consumption |-> r.total_consumption])
    /\ tpc' = IF Len(returns') < MaxCalls /\ ~raised' THEN "v2_call" ELSE "done"
    /\ UNCHANGED <<dom, row_i>>
    /\ UNCHANGED <<imagineVars, meterVars, startVars, mqttVars, headVars, exportVars>>

InitTableV2 ==
    /\ tpc = "v2_call"
    /\ dom \in { d \in Doms : ValidDom(d) }
    /\ hourly_data = <<>>
    /\ total_consumption = None
    /\ row_i = 1
    /\ raised = FALSE
    /\ returns = <<>>
    /\ ImagineIdle
    /\ MetersIdle
    /\ StartIdle
    /\ MqttIdle
    /\ HeadlessIdle
    /\ ExportIdle

\* usmsScraperV2.py: the table extractor on a table view, or the run of main
InitV2 == InitTableV2 \/ InitMetersV2

NextV2 == v2_scrape_data_from_table \/ NextMetersV2

SpecV2 == InitV2 /\ [][NextV2]_vars

-----------------------------------------------------------------------------
(* Claims about usmsScraperV2.py *)

\* the placeholder readings of the first n rows: one for each two-cell row,
\* labelled with the row's 1-based position
RECURSIVE MockReadings(_, _)
MockReadings(rows, n) ==
    IF n = 0 THEN <<>>
    ELSE IF Len(rows[n]) = 2
    THEN Append(MockReadings(rows, n - 1),
                [hour |-> T_Hour \o Render(n), consumption_kWh |-> T_Zero])
    ELSE MockReadings(rows, n - 1)

\* the rows the loop reads before it ends
RowsRead == IF ~dom.root THEN 0
            ELSE IF dom.stale_row > 0 THEN dom.stale_row - 1
            ELSE Len(dom.rows)

\* what usmsScraperV2's table extractor returns: placeholders only
V2TableIsMock ==
    \A k \in 1..Len(returns) :
        /\ returns[k].hourly_data = MockReadings(dom.rows, RowsRead)
        /\ returns[k].total_consumption =
               IF FooterReadable /\ Len(dom.footer_cells) = 2 THEN T_Zero ELSE None

\* what usmsScraperV2's main hands to the spreadsheet: no hourly list, no total,
\* and the meter cards' scraped values
V2ExportsNoHourly ==
    script = "usmsScraperV2" =>
        /\ hourly_consumption = <<>>
        /\ total_kwh = None
        /\ \A k \in 1..Len(usms_exported) :
              LET bundle == usms_exported[k].bundle IN
              /\ bundle.writes
              /\ bundle.data = all_meter_data
              /\ "Account Summary" \in DOMAIN bundle.sheets_config =>
                     "Total Consumption (kWh)" \notin
                         DOMAIN bundle.sheets_config["Account Summary"]
              /\ \A m \in Slots :
                    MeterKey(m) \in DOMAIN all_meter_data =>
                        /\ FieldsIndependent(all_meter_data[MeterKey(m)], FieldNames, m)
                        /\ bundle.sheets_config[IF m = 0 THEN "Electricity Meter"
                                                 ELSE "Water Meter"] =
                               all_meter_data[MeterKey(m)]

\* C21: in usmsScraperV2.py the table extractor returns, for each two-cell row at
\* 0-based position i, the placeholder ("Hour i+1", "0.000") and, from a two-cell
\* footer row, the placeholder total "0.000"; main exports an empty hourly list
\* and an unset total, while the meter records hold the values scraped from the
\* cards.
C21_V2HourlyValuesAreMock ==
    /\ V2TableIsMock
    /\ V2ExportsNoHourly

\* C21 witness: a row of another cell count came before a two-cell row whose cells
\* hold "02:00" and "0.500", and the call returned "Hour 2" with "0.000" and the
\* total "0.000" from a footer that names 18.240.
C21_Witness ==
    /\ returns # <<>>
    /\ FooterReadable
    /\ Len(dom.rows) = 2 /\ Len(dom.rows[1]) # 2 /\ dom.rows[2] = <<"02:00", "0.500">>
    /\ PyIn(<<"1","8",".","2","4","0">>, dom.footer_cells[Len(dom.footer_cells)])
    /\ Len(dom.footer_cells) = 2
    /\ returns[1] = [hourly_data |-> << [hour |-> T_Hour \o <<"2">>,
                                         consumption_kWh |-> T_Zero] >>,
                     total_consumption |-> T_Zero]

\* the payload the claim describes for a meter: the non-null ones of the three
\* desired values with mqtt_timestamp, or None
DescribedPayload(name) ==
    LET present == { key \in FieldSet(desired_keys_for_mqtt) :
                        /\ name \in DOMAIN all_meter_data
                        /\ key \in DOMAIN all_meter_data[name]
                        /\ all_meter_data[name][key] # None }
    IN IF present = {} THEN None
       ELSE [k \in present \cup {"mqtt_timestamp"} |->
                IF k = "mqtt_timestamp" THEN BruneiNowIso ELSE all_meter_data[name][k]]

\* C22: in usmsScraperV2.py each meter's payload holds the non-null ones of
\* Remaining Unit, Remaining Balance and Last Updated plus mqtt_timestamp and is
\* None when the meter is missing or all three are null; the publish is attempted
\* exactly when one of the two payloads exists, with both passed in one call of
\* publish_usms_json that completes without raising.
C22_V2PayloadsInOneCall ==
    (script = "usmsScraperV2" /\ mpc = "finished") =>
        LET due == DescribedPayload("electricity") # None
                       \/ DescribedPayload("water") # None
        IN /\ Len(usms_published) = IF due THEN 1 ELSE 0
           /\ \A k \in 1..Len(usms_published) :
                 /\ usms_published[k].payloads =
                        <<DescribedPayload("electricity"), DescribedPayload("water")>>
                 /\ usms_published[k].raised = ""

\* C23: test_mqtt_connection returns True only if on_connect ran with reason code
\* 0 before the loop was stopped; it returns False when the configuration is not
\* available, when connect raises, when the broker refuses, and when the callback
\* has not run by the time the flag is read.
C23_TrueOnlyAfterOnConnect ==
    (mqtt_call.name = "test_mqtt_connection" /\ qpc = "returned") =>
        /\ mqtt_result \in {"True", "False"}
        /\ mqtt_result = "True" =>
              /\ client = "disconnected"
              /\ broker = "acks"
              /\ connection_successful
        /\ \/ mqtt_config.is_none
           \/ broker \in {"unreachable", "rejects"}
           \/ client = "connecting"
           => mqtt_result = "False"

\* C23 witness: the broker would have acknowledged, the loop was stopped before
\* on_connect ran, and the test returned False.
C23_Witness ==
    /\ mqtt_call.name = "test_mqtt_connection" /\ qpc = "returned"
    /\ broker = "acks" /\ client = "connecting"
    /\ ~mqtt_config.is_none
    /\ Len(wire) = 1
    /\ mqtt_result = "False"

\* a step of the USMS work after the login has been taken: an extractor was
\* started, or a sink was handed something
UsmsWorkStarted ==
    \/ mpc # "idle"
    \/ looked_up # <<>> \/ all_meter_data # EmptyDict \/ dynamic_values # EmptyDict
    \/ usms_exported # <<>> \/ usms_published # <<>>

\* C24: in a run of a USMS script the extraction and the sinks are reached only
\* after a login attempt that ended at an address without "reslogin", compared in
\* lower case; at any other address no extractor runs and no sink is invoked.
C24_ExtractionOnlyAfterLogin ==
    run_script \in {"scraper", "usmsScraper", "usmsScraperV2"} =>
        /\ UsmsWorkStarted =>
              /\ current_url \in AfterLoginUrls
              /\ ~PyIn(T_reslogin, PyLower(current_url))
        /\ (spc = "done" /\ PyIn(T_reslogin, PyLower(current_url))) => ~UsmsWorkStarted

\* C24 witness: the login attempt ended at ".../ResLogin.aspx", and the run ended
\* with the browser closed and without any extraction.
C24_Witness ==
    /\ run_script = "usmsScraper"
    /\ spc = "done"
    /\ current_url \in AfterLoginUrls
    /\ PyIn(<<"R","e","s","L","o","g","i","n">>, current_url)
    /\ ~UsmsWorkStarted
    /\ ~browser_open

\* something scraper.py can publish: meter values, hourly readings or a total
AnythingScraped ==
    Truthy(dynamic_values) \/ Truthy(hourly_consumption) \/ total_kwh # None


\* C25: in scraper.py, once the table has been scraped, the export is attempted
\* exactly when there is an hourly reading, and the publish exactly when meter
\* values, hourly readings or a total are there; with meter values and an empty
\* table the run publishes and writes no spreadsheet.
C25_ExportNeedsHourlyPublishDoesNot ==
    [][ script = "scraper" =>
          /\ mpc = "export" =>
                Len(usms_exported') =
                    Len(usms_exported) + (IF Truthy(hourly_consumption) THEN 1 ELSE 0)
          /\ mpc = "publish" =>
                Len(usms_published') =
                    Len(usms_published) + (IF AnythingScraped THEN 1 ELSE 0)
          /\ mpc \notin {"export", "publish"} =>
                /\ usms_exported' = usms_exported
                /\ usms_published' = usms_published ]_vars

\* C25 witness: scraper.py read meter values, the table had no row and no total,
\* and the run published once and exported nothing.
C25_Witness ==
    /\ script = "scraper" /\ mpc = "finished"
    /\ Truthy(dynamic_values)
    /\ hourly_consumption = <<>> /\ total_kwh = None
    /\ Len(usms_published) = 1
    /\ usms_exported = <<>>

\* the fields of names before the first one whose lookup raises something that
\* the handlers of the field loop do not catch
RECURSIVE ReachedFields(_, _, _, _)
ReachedFields(names, meter_index, handlers, i) ==
    IF i > Len(names) THEN {}
    ELSE LET outcome == cards.faults[<<meter_index, names[i]>>]
         IN IF outcome = "ok" \/ \E h \in handlers : Catches(h, outcome)
            THEN {names[i]} \cup ReachedFields(names, meter_index, handlers, i + 1)
            ELSE {}

\* the state right after scrape_dynamic_values / scrape_all_meters has returned
\* to scraper.py / usmsScraper.py
ExtractorReturned == script \in {"scraper", "usmsScraper"} /\ mpc = UsmsNavWaits[1]

SpcOrder ==
    <<"idle", "load_credentials", "setup_driver", "set_window_size", "get">>
    \o LoginWaits \o <<"login_check", "pipeline", "finally", "done", "exited", "crashed">>

IpcOrder == <<"idle">> \o NavWaits \o <<"url_check", "parse", "publish", "export",
                                        "finally", "done">>

MpcOrder == <<"idle", "cards">> \o UsmsNavWaits \o <<"table", "export", "publish",
                                                     "publish_v2", "finished">>

Position(order, pc) == CHOOSE i \in 1..Len(order) : order[i] = pc

\* how far the run has come
Progress == Position(SpcOrder, spc) + Position(IpcOrder, ipc) + Position(MpcOrder, mpc)

\* the run is inside the try statement of scraper.py 245 / imagineScraper.py 207
InsideTry ==
    \/ spc \in FieldSet(LoginWaits) \cup {"login_check", "pipeline", "finally"}

\* the finally clause has run: the browser is closed and the script is at its end
BrowserClosed == RunEnded /\ ~browser_open

-----------------------------------------------------------------------------
(* scraper_headless.py 166-297: the navigation to the data table after the login *)

\* the waits before the overlay check (lines 168-207)
HeadlessWaitsBefore ==
    <<"frame 0", "consumption link", "cboType_I", "cboType_DDD_L_LBI3T0",
      "cboDateFrom_I", "UpdatePanel1 row">>

\* the waits after the click on "Date To" (lines 245-269)
HeadlessWaitsAfter ==
    <<"date picker row", "cboDateTo_I again", "btnRefresh_CD", "ASPxPageControl1_T1T">>

\* line 223: except TimeoutException around the wait for the overlay
OverlayHandler == "TimeoutException"

\* a handler of the ESCAPE key for timeouts only
EscapeHandler_TimeoutOnly == "TimeoutException"

\* line 229: except Exception as esc_e around the ESCAPE key
EscapeHandler == "Exception"

\* line 238: except Exception as e around the normal click on "Date To"
ClickHandler == "Exception"

\* lines 294-297: except TimeoutException as nav_te, except Exception as nav_e:
\* the navigation ends, with the exception and the step that raised it
EndNavigation(exc, at) ==
    /\ hpc' = "finished"
    /\ nav_end' = [exc |-> exc, at |-> at]

\* a wait of the navigation and the interaction that follows it; the wait can
\* time out and the interaction can raise
headless_navigate ==
    /\ \E waits \in {HeadlessWaitsBefore, HeadlessWaitsAfter},
          k \in 1..Len(HeadlessWaitsBefore),
          outcome \in {"ok", "TimeoutException", "ElementClickInterceptedException"} :
          /\ k <= Len(waits)
          /\ hpc = waits[k]
          /\ IF outcome # "ok" THEN EndNavigation(outcome, hpc)
             ELSE /\ hpc' = IF k < Len(waits) THEN waits[k + 1]
                            ELSE IF waits = HeadlessWaitsBefore THEN "overlay"
                            ELSE "table"
                  /\ UNCHANGED nav_end
    /\ UNCHANGED events
    /\ UNCHANGED <<imagineVars, tableVars, meterVars, startVars, mqttVars, exportVars>>

\* lines 218-224: the wait for the overlay pcErr_DXPWMB-1 to be invisible
headless_overlay_wait ==
    /\ hpc = "overlay"
    /\ \E outcome \in {"invisible", "TimeoutException", "WebDriverException"} :
          IF outcome = "invisible"
          THEN /\ hpc' = "cboDateTo_I"
               /\ UNCHANGED <<events, nav_end>>
          ELSE IF Catches(OverlayHandler, outcome)
          THEN /\ hpc' = "ESCAPE"
               /\ events' = Append(events, "overlay stayed")
               /\ UNCHANGED nav_end
          ELSE /\ EndNavigation(outcome, hpc)
               /\ UNCHANGED events
    /\ UNCHANGED <<imagineVars, tableVars, meterVars, startVars, mqttVars, exportVars>>

\* lines 225-230: the ESCAPE key is sent to the body element
headless_send_escape ==
    /\ hpc = "ESCAPE"
    /\ \E outcome \in {"ok", "NoSuchElementException"} :
          IF outcome = "ok"
          THEN /\ events' = Append(events, "ESCAPE sent")
               /\ hpc' = "cboDateTo_I"
               /\ UNCHANGED nav_end
          ELSE IF Catches(EscapeHandler, outcome)
          THEN /\ events' = Append(events, "ESCAPE failed")
               /\ hpc' = "cboDateTo_I"
               /\ UNCHANGED nav_end
          ELSE /\ EndNavigation(outcome, hpc)
               /\ UNCHANGED events
    /\ UNCHANGED <<imagineVars, tableVars, meterVars, startVars, mqttVars, exportVars>>

\* line 233: the wait for the "Date To" input to be clickable
headless_date_to_wait ==
    /\ hpc = "cboDateTo_I"
    /\ \E outcome \in {"ok", "TimeoutException"} :
          IF outcome = "ok"
          THEN hpc' = "Date To click" /\ UNCHANGED nav_end
          ELSE EndNavigation(outcome, hpc)
    /\ UNCHANGED events
    /\ UNCHANGED <<imagineVars, tableVars, meterVars, startVars, mqttVars, exportVars>>

\* lines 235-241: the click on "Date To"; when it raises, the click is made by a
\* script, and an exception of the script leaves the handler
headless_date_to_click ==
    /\ hpc = "Date To click"
    /\ \E click \in {"ok", "ElementClickInterceptedException"},
          script_click \in {"ok", "JavascriptException"} :
          IF click = "ok"
          THEN /\ script_click = "ok"
               /\ events' = Append(events, "clicked")
               /\ hpc' = HeadlessWaitsAfter[1]
               /\ UNCHANGED nav_end
          ELSE IF ~Catches(ClickHandler, click)
          THEN /\ script_click = "ok"
               /\ events' = Append(events, "click failed")
               /\ EndNavigation(click, hpc)
          ELSE IF script_click = "ok"
          THEN /\ events' = events \o <<"click failed", "script click">>
               /\ hpc' = HeadlessWaitsAfter[1]
               /\ UNCHANGED nav_end
          ELSE /\ events' = events \o <<"click failed", "script click failed">>
               /\ EndNavigation(script_click, hpc)
    /\ UNCHANGED <<imagineVars, tableVars, meterVars, startVars, mqttVars, exportVars>>

\* line 280: the table is scraped; scrape_data_from_table does not raise
headless_scrape_table ==
    /\ hpc = "table"
    /\ events' = Append(events, "table scraped")
    /\ hpc' = "finished"
    /\ UNCHANGED nav_end
    /\ UNCHANGED <<imagineVars, tableVars, meterVars, startVars, mqttVars, exportVars>>

\* scraper_headless.py after a successful login (line 166)
InitHeadless ==
    /\ hpc = HeadlessWaitsBefore[1]
    /\ events = <<>>
    /\ nav_end = [exc |-> "", at |-> ""]
    /\ ImagineIdle
    /\ TableIdle
    /\ MetersIdle
    /\ StartIdle
    /\ MqttIdle
    /\ ExportIdle

NextHeadless ==
    \/ headless_navigate
    \/ headless_overlay_wait
    \/ headless_send_escape
    \/ headless_date_to_wait
    \/ headless_date_to_click
    \/ headless_scrape_table

SpecHeadless == InitHeadless /\ [][NextHeadless]_vars

-----------------------------------------------------------------------------
(* Claims about scraper_headless.py *)

Happened(e) == \E i \in 1..Len(events) : events[i] = e

NavigationWaits ==
    FieldSet(HeadlessWaitsBefore) \cup FieldSet(HeadlessWaitsAfter) \cup {"cboDateTo_I"}

\* the run has come to the "Date To" input or beyond
AtDateToOrBeyond ==
    \/ hpc \in {"cboDateTo_I", "Date To click", "table"} \cup FieldSet(HeadlessWaitsAfter)
    \/ hpc = "finished" /\ nav_end.at \notin {"overlay", "ESCAPE"}

\* C28: in scraper_headless.py a timeout of the wait for the overlay does not end
\* the navigation: the ESCAPE key is sent, its failure is swallowed, and the run
\* goes on to the "Date To" input, whose click is made by a script when the normal
\* click raises; a timeout ends the navigation only when it is the timeout of a
\* navigation wait.
C28_OverlayTimeoutHandledLocally ==
    /\ Happened("overlay stayed") =>
          /\ hpc = "ESCAPE" \/ Happened("ESCAPE sent") \/ Happened("ESCAPE failed")
          /\ hpc # "ESCAPE" => AtDateToOrBeyond
    /\ nav_end.at # "ESCAPE"
    /\ Happened("click failed") =>
          Happened("script click") \/ Happened("script click failed")
    /\ nav_end.at = "Date To click" => Happened("script click failed")
    /\ nav_end.exc = "TimeoutException" => nav_end.at \in NavigationWaits
    /\ (hpc = "finished" /\ nav_end.exc = "") <=> Happened("table scraped")

\* C28 witness: the overlay stayed, the ESCAPE key could not be sent, the normal
\* click on "Date To" raised, the script click was made, and the navigation went
\* on to the table.
C28_Witness ==
    /\ events = <<"overlay stayed", "ESCAPE failed", "click failed", "script click",
                  "table scraped">>
    /\ hpc = "finished"
    /\ nav_end.exc = ""

-----------------------------------------------------------------------------
(* excel_exporter.py: export_to_excel and the two functions that call it      *)

\* most additional sheets of a generated call
MaxSheets == 2

\* what a caller can hand over as data; "int" and "None" are of no listed type
DataKinds == {"DataFrame", "list", "dict", "int", "None"}

\* A value to be written: its type, and whether pandas builds a frame from it.
Values ==
    { [kind |-> k, convertible |-> c] : k \in DataKinds, c \in BOOLEAN }
        \ { [kind |-> "DataFrame", convertible |-> FALSE] }

\* one entry of sheets_config: the dict of a sheet, with or without its "data" key
SheetConfigs ==
    { [has_data |-> TRUE, data |-> v] : v \in Values }
        \cup { [has_data |-> FALSE, data |-> [kind |-> "None", convertible |-> TRUE]] }

\* the disk: the file can be written, cannot be opened, or cannot be saved
Disks == {"ok", "cannot open", "cannot save"}

\* lines 47-55 (68-75): the frame of a value; pd.DataFrame raises for a value it
\* cannot take
FrameError(v) == IF v.kind = "DataFrame" \/ v.convertible THEN "" ELSE "ValueError"

\* lines 63-77: the loop over sheets_config; the first sheet that has no "data"
\* key (line 65) or whose data cannot be framed ends it
RECURSIVE SheetsError(_, _)
SheetsError(sheets, i) ==
    IF i > Len(sheets) THEN ""
    ELSE IF ~sheets[i].has_data THEN "KeyError"
    ELSE IF FrameError(sheets[i].data) # "" THEN FrameError(sheets[i].data)
    ELSE SheetsError(sheets, i + 1)

\* a handler for errors of the disk only
ExportHandler_OSErrorOnly == "OSError"

\* line 82: except Exception as e
ExportHandler == "Exception"

\* lines 31-80: the exception the try block ends with ("" when it runs through)
\* and what is on the disk then.  An exception inside the with block leaves the
\* writer through its __exit__, which saves what was written when exit_saves.
ExportAttempt(data, sheets, disk, exit_saves) ==
    IF FrameError(data) # "" THEN [exc |-> FrameError(data), written |-> "none"]
    ELSE IF disk = "cannot open" THEN [exc |-> "OSError", written |-> "none"]
    ELSE IF SheetsError(sheets, 1) # ""
    THEN [exc |-> SheetsError(sheets, 1),
          written |-> IF exit_saves /\ disk = "ok" THEN "partial" ELSE "none"]
    ELSE IF disk = "cannot save" THEN [exc |-> "OSError", written |-> "none"]
    ELSE [exc |-> "", written |-> "complete"]

\* export_to_excel(data, filename_prefix, sheets_config): the path, or None from
\* the handler of line 82; an exception the handler does not catch is raised
export_to_excel(data, sheets, disk, exit_saves) ==
    LET attempt == ExportAttempt(data, sheets, disk, exit_saves)
    IN IF attempt.exc = ""
       THEN [result |-> "excel_file_path", raised |-> "", written |-> attempt.written]
       ELSE IF Catches(ExportHandler, attempt.exc)
       THEN [result |-> "None", raised |-> "", written |-> attempt.written]
       ELSE [result |-> "not returned", raised |-> attempt.exc,
             written |-> attempt.written]

\* the value export_usms_data / export_imagine_data hand over as data: the list of
\* hourly readings, or a dict (line 170; line 124); pandas frames both
BundleValue(kind) == [kind |-> kind, convertible |-> TRUE]

\* the sheets of a bundle: each has its "data" key (lines 118, 156-167), in the
\* order of the sheet names
RECURSIVE BundleSheets(_)
BundleSheets(names) ==
    IF names = {} THEN <<>>
    ELSE LET n == CHOOSE x \in names : TRUE
         IN <<[has_data |-> TRUE, data |-> [kind |-> "dict", convertible |-> TRUE]]>>
                \o BundleSheets(names \ {n})

\* lines 97-99 and 143-145 return None before export_to_excel is called; lines
\* 123-127 and 172-176 return what export_to_excel returns
ExportBundle(bundle, kind, disk, exit_saves) ==
    IF ~bundle.writes THEN [result |-> "None", raised |-> "", written |-> "none"]
    ELSE export_to_excel(BundleValue(kind),
                         BundleSheets(DOMAIN bundle.sheets_config), disk, exit_saves)

\* the calls of the generated runs
ExportCalls ==
    { [fn |-> "export_to_excel", data |-> v, sheets |-> sh, disk |-> dk] :
        v \in Values, sh \in SeqsUpTo(SheetConfigs, MaxSheets), dk \in Disks }
    \cup
    { [fn |-> "export_usms_data", hourly |-> h, total |-> None, dyn |-> EmptyDict,
       meters |-> m, disk |-> dk] :
        h \in { r.hourly_data : r \in TableResults },
        m \in { EmptyDict,
                DictSet(EmptyDict, "electricity",
                        DictSet(EmptyDict, "Meter Type", "Electricity")) },
        dk \in Disks }
    \cup
    { [fn |-> "export_imagine_data", usage_data |-> u, disk |-> dk] :
        u \in { EmptyDict,
                DictSet(EmptyDict, "Base Plan Usage", T_139GB_of_700_GB_Used) },
        dk \in Disks }

\* one call into excel_exporter, from its first line to its return
export_returns ==
    /\ xpc = "called"
    /\ \E exit_saves \in BOOLEAN :
          export_outcome' =
              IF export_call.fn = "export_to_excel"
              THEN export_to_excel(export_call.data, export_call.sheets,
                                   export_call.disk, exit_saves)
              ELSE IF export_call.fn = "export_usms_data"
              THEN ExportBundle(export_usms_data(export_call.hourly, export_call.total,
                                                 export_call.dyn, export_call.meters),
                                IF Truthy(export_call.hourly) THEN "list" ELSE "dict",
                                export_call.disk, exit_saves)
              ELSE ExportBundle(export_imagine_data(export_call.usage_data), "dict",
                                export_call.disk, exit_saves)
    /\ xpc' = "returned"
    /\ UNCHANGED export_call
    /\ UNCHANGED <<imagineVars, tableVars, meterVars, startVars, mqttVars, headVars>>

InitExport ==
    /\ xpc = "called"
    /\ export_call \in ExportCalls
    /\ export_outcome = [result |-> "not returned", raised |-> "", written |-> "none"]
    /\ ImagineIdle
    /\ TableIdle
    /\ MetersIdle
    /\ StartIdle
    /\ MqttIdle
    /\ HeadlessIdle

SpecExport == InitExport /\ [][export_returns]_vars

-----------------------------------------------------------------------------
(* Claims about excel_exporter.py *)

\* something fails in a call of export_to_excel: the data or a sheet's data cannot
\* be framed, a sheet has no "data" entry, or the disk refuses the file
SomethingFails(c) ==
    \/ ~(c.data.kind = "DataFrame" \/ c.data.convertible)
    \/ \E i \in 1..Len(c.sheets) :
          \/ ~c.sheets[i].has_data
          \/ ~(c.sheets[i].data.kind = "DataFrame" \/ c.sheets[i].data.convertible)
    \/ c.disk # "ok"

\* a call of export_usms_data or export_imagine_data without data
NoDataCall(c) ==
    \/ c.fn = "export_usms_data" /\ c.hourly = <<>> /\ c.meters = EmptyDict
    \/ c.fn = "export_imagine_data" /\ c.usage_data = EmptyDict

-----------------------------------------------------------------------------
(* Claims about the shape of the meter records *)

\* the slot a key of the result stands for
SlotOfKey(k) == IF k = "electricity" THEN 0 ELSE 1

\* a record of the given slot is complete in shape
CompleteRecord(rec, slot) ==
    /\ DOMAIN rec = FieldSet(FieldNames) \cup {"Meter Type", "Script Execution Time"}
    /\ \A f \in FieldSet(FieldNames) :
          rec[f] = None \/ rec[f] = <<"text", rec["Meter Type"], f>>
    /\ rec["Meter Type"] = (IF slot = 0 THEN "Electricity" ELSE "Water")
    /\ rec["Script Execution Time"] = BruneiNowIso

\* C30: every meter record in the result of scrape_all_meters has all eleven
\* field keys, each a string or null, a "Meter Type" of Electricity for slot 0 and
\* Water for slot 1, and a "Script Execution Time"; and it is stored under the
\* key of its Meter Type, for a card the page has.
C30_MeterRecordsCompleteInShape ==
    \A k \in DOMAIN all_meter_data :
        /\ k \in {"electricity", "water"}
        /\ cards.present[SlotOfKey(k)]
        /\ CompleteRecord(all_meter_data[k], SlotOfKey(k))
        /\ (k = "electricity") <=> (all_meter_data[k]["Meter Type"] = "Electricity")

\* C30 witness: both cards were scraped by usmsScraper.py, a lookup of the water
\* card raised an exception that is not a timeout, and its field is null in a
\* record that has its Meter Type.
C30_Witness ==
    /\ script = "usmsScraper" /\ mpc # "cards"
    /\ DOMAIN all_meter_data = {"electricity", "water"}
    /\ \E f \in FieldSet(FieldNames) :
          /\ cards.faults[<<1, f>>] = "StaleElementReferenceException"
          /\ all_meter_data["water"][f] = None
    /\ all_meter_data["water"]["Meter Type"] = "Water"
    /\ \A f \in FieldSet(FieldNames) : all_meter_data["electricity"][f] # None

-----------------------------------------------------------------------------
(* The scripts together: one run is one of the scripts *)

Init ==
    \/ InitImagine \/ InitTable \/ InitTableV2 \/ InitMeters \/ InitMetersV2
    \/ InitRun \/ InitMqtt \/ InitHeadless \/ InitExport

Next ==
    \/ NextImagine \/ NextTable \/ v2_scrape_data_from_table \/ NextMeters
    \/ v2_publish \/ NextStart \/ NextMqtt \/ NextHeadless \/ export_returns

Spec == Init /\ [][Next]_vars

====
